---------------------------- MODULE Spec2Model ----------------------------
(***************************************************************************)
(* Model of the Synology WebAPI client library:                            *)
(*   src/src/auth/synology_auth.py           class SynologyAuth            *)
(*   src/src/dnsserver/synology_dnsserver.py class SynologyDNSServer       *)
(*                                                                         *)
(* A caller drives one call at a time (the library is synchronous).  The   *)
(* login and logout loops advance one version candidate per step, the      *)
(* remote system's answer to each request being an input of that step.     *)
(*                                                                         *)
(* Python values: None is the string "None"; a missing dictionary key is   *)
(* Absent; integer error codes are written as their decimal strings, so    *)
(* that they live in one domain with the library's own string codes        *)
(* ('unknown', 'no_session', ...).                                         *)
(***************************************************************************)
EXTENDS Integers, Naturals, Sequences, FiniteSets, TLC

\* ------------------------------------------------------------------ bounds
\* number of distinct session identifiers the remote system hands out
NumSessions == 2

\* number of calls the threads of the concurrent specification start
MaxCalls == 3

\* ------------------------------------------------------------ value domains
None   == "None"
Absent == "<absent>"

SidNames == <<"S1", "S2", "S3", "S4">>
SIDs     == { SidNames[i] : i \in 1..NumSessions }

\* the two negotiator objects of the model
Instances == {"n1", "n2"}

\* default session type of __init__ / logout's reset
DefaultSessionType == "FileStation"

\* session types of login() and login_dns_server()
SessionTypes == {"FileStation", "DNSServer"}

\* the one account of the model
Username == "admin"
Password == "secret"

\* A Python str the library builds or inspects is the sequence of its
\* characters; a key of a dict literal, which the code never takes apart,
\* stands in a text as one element.
Quote == "\""
Tab   == "\t"

ExampleCom == <<"e", "x", "a", "m", "p", "l", "e", ".", "c", "o", "m">>
At         == <<"@">>
Www        == <<"w", "w", "w">>
WwwFqdn    == Www \o <<".">> \o ExampleCom \o <<".">>
EmptyStr   == <<>>
Ip1        == <<"1", "0", ".", "0", ".", "0", ".", "1">>
Ip2        == <<"1", "0", ".", "0", ".", "0", ".", "2">>

\* str.endswith(c) for a one-character suffix
EndsWith(s, c) == Len(s) > 0 /\ s[Len(s)] = c

\* the f-string  '{s}', which adds no quotes
Quoted_Bare(s) == s

\* the f-string  '"{s}"'
Quoted(s) == <<Quote>> \o s \o <<Quote>>

DigitChars == <<"0", "1", "2", "3", "4", "5", "6", "7", "8", "9">>

\* str(n) of a non-negative int, as an f-string formats it
RECURSIVE Decimal(_)
Decimal(n) ==
    IF n < 10 THEN <<DigitChars[n + 1]>>
    ELSE Decimal(n \div 10) \o <<DigitChars[(n % 10) + 1]>>

\* a Python int and a Python bool, apart from the strings: one-element
\* tuples of the number and of the truth value
PyInt(n) == <<n>>
PyTrue   == <<TRUE>>
PyFalse  == <<FALSE>>

\* f"{v}" of an int
Format(v) == Decimal(v[1])

\* sep.join(parts)
RECURSIVE Join(_, _)
Join(sep, parts) ==
    IF Len(parts) = 0 THEN <<>>
    ELSE IF Len(parts) = 1 THEN parts[1]
    ELSE parts[1] \o sep \o Join(sep, Tail(parts))

Backslash == "\\"

\* the escapes json.dumps applies inside a string
RECURSIVE JsonEscape(_)
JsonEscape(s) ==
    IF Len(s) = 0 THEN <<>>
    ELSE (IF Head(s) = Quote THEN <<Backslash, Quote>>
          ELSE IF Head(s) = Backslash THEN <<Backslash, Backslash>>
          ELSE IF Head(s) = Tab THEN <<Backslash, "t">>
          ELSE <<Head(s)>>) \o JsonEscape(Tail(s))

\* json.dumps of a str
JsonString(s) == <<Quote>> \o JsonEscape(s) \o <<Quote>>

\* json.dumps of a dict of str values whose keys were inserted in the order keys
JsonObject(keys, d) ==
    <<"{">> \o Join(<<",", " ">>,
                    [k \in 1..Len(keys) |->
                        <<Quote, keys[k], Quote, ":", " ">> \o JsonString(d[keys[k]])])
           \o <<"}">>

\* json.dumps of a list of such dicts
JsonDumps(keys, items) ==
    <<"[">> \o Join(<<",", " ">>,
                    [i \in 1..Len(items) |-> JsonObject(keys, items[i])])
           \o <<"]">>

\* A JSON object / Python dict of the API Response shape.  success is the
\* 'success' entry ("true", "false" or Absent), code is error.code, message
\* is error.message (the detail of the error mapping), sid is data.sid and
\* data is the rest of the data payload.  py distinguishes None from a dict.
Dict(success, code, message, sid, data) ==
    [py |-> "dict", success |-> success, code |-> code, message |-> message,
     sid |-> sid, data |-> data]

NoneDict ==
    [py |-> "None", success |-> Absent, code |-> Absent, message |-> Absent,
     sid |-> Absent, data |-> Absent]

\* the JSON text {}
EmptyDict == Dict(Absent, Absent, Absent, Absent, Absent)

\* Python truthiness of a value that is None or a dict
Truthy(d) == d /= NoneDict /\ d /= EmptyDict

\* result.get('success') used as a condition
SuccessFlag(d) == d.success = "true"

\* result.get('error', {}).get('code', 'unknown')
ErrorCodeOf(d) == IF d.code = Absent THEN "unknown" ELSE d.code

\* ---------------------------------------------------------------- transport
\* What one requests.get / requests.post call meets: transport "conn_error"
\* is an exception raised by the call itself; otherwise status is the HTTP
\* status and parse tells what response.json() makes of the body.
Resp(transport, status, parse, body) ==
    [transport |-> transport, status |-> status, parse |-> parse, body |-> body]

NoResp == Resp("none", 0, "none", NoneDict)

ConnError   == Resp("conn_error", 0, "none", NoneDict)
Ok(body)    == Resp("ok", 200, "dict", body)
NotJson     == Resp("ok", 200, "not_json", NoneDict)
NotDict     == Resp("ok", 200, "not_dict", NoneDict)
Http500(body) == Resp("ok", 500, "dict", body)
Http404     == Resp("ok", 404, "not_json", NoneDict)
Http300(body) == Resp("ok", 300, "dict", body)

Fail(code)  == Dict("false", code, "E", Absent, Absent)

\* requests.get(url, params=payload): the payload travels in the query
Get(url, payload) ==
    [url |-> url, verb |-> "GET", carrier |-> "query", params |-> payload]

\* requests.post(url, data=payload): the payload travels in the body
Post(url, payload) ==
    [url |-> url, verb |-> "POST", carrier |-> "body", params |-> payload]

\* str(b) of a bool: what the form encoding of requests.post(data=...)
\* writes for a value that is not a string
PyStr(b) == IF b[1] THEN <<"T", "r", "u", "e">> ELSE <<"F", "a", "l", "s", "e">>

\* the parameters the library passes as a bool
BoolKeys == {"zone_enable"}

\* the fields of the form a POST carries in its body: a string goes as it
\* is, a bool as str() of it
FormFields(params) ==
    [k \in DOMAIN params |->
        IF k \in BoolKeys THEN PyStr(params[k]) ELSE params[k]]

\* f"{self.base_url}/webapi/auth.cgi" and f"{self.base_url}/webapi/entry.cgi"
AuthUrl == "/webapi/auth.cgi"
ApiUrl  == "/webapi/entry.cgi"

\* raise_for_status that lets the 4xx statuses pass
RaisesForStatus_Only5xx(status) == 500 <= status /\ status < 600

\* response.raise_for_status(): raises for a 4xx or 5xx status
RaisesForStatus(status) == 400 <= status /\ status < 600

\* ------------------------------------------------------- the remote system
\* error codes a failure response may carry ("119" stands for every code
\* that neither loop classifies)
LoginCodes  == {"400", "402", "403", "404", "119"}
LogoutCodes == {"105", "106", "119"}

\* {"success": true, "data": {"sid": s}}
LoginOk(s) == Dict("true", Absent, Absent, s, Absent)

\* answers a login request can meet
LoginResponses ==
    {ConnError, NotJson, NotDict, Http500(Fail("400")), Http500(LoginOk("S1")),
     Http300(Fail("400"))}
    \cup { Ok(LoginOk(s)) : s \in SIDs }
    \cup { Ok(Fail(c)) : c \in LoginCodes }
    \cup { Ok(Dict("true", Absent, Absent, Absent, Absent)),
           Ok(Dict("false", Absent, Absent, Absent, Absent)),
           Ok(Dict(Absent, "403", "E", Absent, Absent)),
           Ok(EmptyDict) }

\* answers a logout request can meet
LogoutResponses ==
    {ConnError, NotJson, NotDict, Http500(Fail("105")),
     Ok(Dict("true", Absent, Absent, Absent, Absent))}
    \cup { Ok(Fail(c)) : c \in LogoutCodes }
    \cup { Ok(Dict("false", Absent, Absent, Absent, Absent)),
           Ok(Dict(Absent, "106", "E", Absent, Absent)),
           Ok(EmptyDict) }

\* answers a resource request can meet
DnsResponses ==
    {ConnError, NotJson, Http404,
     Http300(Dict("true", Absent, Absent, Absent, "D1")),
     Http300(Dict("false", "400", "E", Absent, Absent)),
     Http500(Dict("true", Absent, Absent, Absent, "D1")),
     Ok(Dict("true", Absent, Absent, Absent, "D1")),
     Ok(Dict("true", Absent, Absent, Absent, Absent)),
     Ok(Dict("false", "400", "E", Absent, "D1")),
     Ok(Dict("false", "400", "E", Absent, Absent)),
     Ok(Dict("false", Absent, Absent, Absent, "D1")),
     Ok(Dict(Absent, "119", "E", Absent, "D1")),
     Ok(Dict(Absent, Absent, Absent, Absent, "D1")),
     Ok(EmptyDict)}

\* the class of the exception response.json() raises on a body that is not
\* JSON: requests.exceptions.JSONDecodeError (a RequestException) in
\* requests >= 2.27, the json module's ValueError before
JsonErrorClasses == {"RequestException", "Exception"}

\* the exception classes the answer resp leaves open
ErrorClassesOf(resp) ==
    IF resp.parse = "not_json" THEN JsonErrorClasses ELSE {"RequestException"}

\* -------------------------------------------------------------------- state
VARIABLES
    current_session_id,    \* SynologyAuth.current_session_id, per instance
    current_session_type,  \* SynologyAuth.current_session_type, per instance
    session_id,            \* SynologyDNSServer.session_id (None: no client)
    op,                    \* the call in progress or last made
    pc,                    \* "idle", "loop" (inside the version loop), "done"
    self,                  \* the negotiator the call is made on
    session_type,          \* login_with_session's session_type argument
    arg_session_id,        \* logout's session_id argument
    arg_session_type,      \* logout's session_type argument
    logout_session_id,     \* logout's local
    logout_session_type,   \* logout's local
    idx,                   \* number of versions the loop has gone through
    last_error,            \* logout's local
    requests,              \* the requests the call has issued, in order
    lastResp,              \* what the latest request met
    result,                \* the dict returned by login/logout
    dns_data,              \* the value returned by _make_request
    raised,                \* the exception that left _make_request
    dns_op,                \* the public resource operation called, with its arguments
    dns_call,              \* the arguments _make_request was called with
    op_return,             \* the value the public resource operation returned
    entry_session_id,      \* current_session_id[self] when the call began
    entry_session_type,    \* current_session_type[self] when the call began
    everAuth,              \* history: some login succeeded on the instance
    liveSid,               \* history: sid of the latest successful login,
                           \* None once a logout of it has succeeded
    liveType,              \* history: session_type argument of that login
    exclusive,             \* the callers hold a lock around every call
    lock,                  \* the thread inside a call under that lock
    calls,                 \* number of calls the threads have started
    call_info,             \* history: kind and session type of each call
    id_from,               \* history: the call that wrote current_session_id
    type_from,             \* history: the call that wrote current_session_type
    t_pc,                  \* per thread: the statement it is at
    t_call,                \* per thread: the number of its call
    t_session_type,        \* per thread: session_type / logout_session_type
    t_sid,                 \* per thread: result['data']['sid'] / logout_session_id
    t_idx                  \* per thread: versions its loop has gone through

vars == <<current_session_id, current_session_type, session_id, op, pc, self,
          session_type, arg_session_id, arg_session_type, logout_session_id,
          logout_session_type, idx, last_error, requests, lastResp, result,
          dns_data, raised, dns_op, dns_call, op_return, entry_session_id,
          entry_session_type, everAuth, liveSid, liveType, exclusive, lock, calls,
          call_info, id_from, type_from, t_pc, t_call, t_session_type, t_sid,
          t_idx>>

authVars  == <<current_session_id, current_session_type>>
histVars  == <<everAuth, liveSid, liveType>>
dnsFrame  == <<dns_op, dns_call, op_return>>
thrVars   == <<exclusive, lock, calls, call_info, id_from, type_from, t_pc,
               t_call, t_session_type, t_sid, t_idx>>
seqVars   == <<session_id, op, pc, self, session_type, arg_session_id,
               arg_session_type, logout_session_id, logout_session_type, idx,
               last_error, requests, lastResp, result, dns_data, raised,
               dnsFrame, entry_session_id, entry_session_type, histVars>>

Threads == {"t1", "t2"}
NoCall  == [kind |-> "none", session_type |-> None]

NoException == [type |-> "none", code |-> Absent, info |-> NoneDict]
NoData      == "<nothing>"
NoDnsOp     == [name |-> "none"]
NoDnsCall   == [api |-> None]

\* no thread has started a call
ThreadsAtRest ==
    /\ lock = "free"
    /\ calls = 0
    /\ call_info = [k \in 1..MaxCalls |-> NoCall]
    /\ id_from = 0 /\ type_from = 0
    /\ t_pc = [t \in Threads |-> "idle"]
    /\ t_call = [t \in Threads |-> 0]
    /\ t_session_type = [t \in Threads |-> None]
    /\ t_sid = [t \in Threads |-> None]
    /\ t_idx = [t \in Threads |-> 0]

\* SynologyAuth.__init__ for each instance; no call yet
InitFrame ==
    /\ current_session_id = [n \in Instances |-> None]
    /\ current_session_type = [n \in Instances |-> DefaultSessionType]
    /\ op = "none" /\ pc = "idle" /\ self = "n1"
    /\ session_type = None
    /\ arg_session_id = None /\ arg_session_type = None
    /\ logout_session_id = None /\ logout_session_type = None
    /\ idx = 0
    /\ last_error = NoneDict
    /\ requests = <<>>
    /\ lastResp = NoResp
    /\ result = NoneDict
    /\ dns_data = NoData
    /\ raised = NoException
    /\ dns_op = NoDnsOp /\ dns_call = NoDnsCall /\ op_return = NoData
    /\ entry_session_id = None /\ entry_session_type = DefaultSessionType
    /\ everAuth = [n \in Instances |-> FALSE]
    /\ liveSid = [n \in Instances |-> None]
    /\ liveType = [n \in Instances |-> None]

\* one caller, who makes one call at a time
InitNegotiators == InitFrame /\ ThreadsAtRest /\ exclusive = TRUE

\* the negotiators constructed, no resource client yet
Init == InitNegotiators /\ session_id = None

\* is_logged_in()
is_logged_in(n) == current_session_id[n] /= None

\* get_session_info()
get_session_info(n) ==
    [session_id |-> current_session_id[n],
     session_type |-> current_session_type[n],
     logged_in |-> is_logged_in(n)]

\* ------------------------------------------------------ login_with_session
\* api_versions = ['7', '6', '3', '2']
api_versions == <<"7", "6", "3", "2">>

\* IsAuthError without the last code of the list
IsAuthError_No404(code) == code \in {"400", "402", "403"}

\* error_code in [400, 402, 403, 404]
IsAuthError(code) == code \in {"400", "402", "403", "404"}

\* the payload of one login request
LoginPayload(version, st) ==
    [api |-> "SYNO.API.Auth", version |-> version, method |-> "login",
     account |-> Username, passwd |-> Password, session |-> st,
     format |-> "sid"]

\* RaisesBeforeBody of a try block without  response.raise_for_status()
RaisesBeforeBody_NoStatusCheck(resp) ==
    \/ resp.transport = "conn_error"
    \/ resp.parse /= "dict"

\* does the try block of a loop iteration leave by an exception before the
\* parsed body is looked at
RaisesBeforeBody(resp) ==
    \/ resp.transport = "conn_error"
    \/ RaisesForStatus(resp.status)
    \/ resp.parse /= "dict"

\* the class of the exception the statements of a try block raise up to and
\* including  result.get('success'), "none" when they raise nothing
NoError == "none"

TryRaises(resp) ==
    IF resp.transport = "conn_error" THEN "ConnectionError"
    ELSE IF RaisesForStatus(resp.status) THEN "HTTPError"
    ELSE IF resp.parse = "not_json" THEN "JSONDecodeError"
    ELSE IF resp.parse /= "dict" THEN "AttributeError"
    ELSE NoError

\* the exception the try block of a login iteration raises:
\* result['data']['sid'] of a success body without sid is a KeyError
LoginRaises(resp) ==
    IF TryRaises(resp) /= NoError THEN TryRaises(resp)
    ELSE IF SuccessFlag(resp.body) /\ resp.body.sid = Absent THEN "KeyError"
    ELSE NoError

\* the exception exc as it leaves a call
Propagated(exc) == [type |-> exc, code |-> Absent, info |-> NoneDict]

\* a handler that catches the exceptions of the transport only
LoginCatches_OnlyRequestException(exc) == exc \in {"ConnectionError", "HTTPError"}

\* except Exception:  catches every exception the try block can raise
LoginCatches(exc) == TRUE

\* LoginStep with the return of the success branch lost
LoginStep_NoReturn(resp) ==
    IF RaisesBeforeBody(resp) THEN "continue"
    ELSE IF SuccessFlag(resp.body) THEN "continue"
         ELSE IF IsAuthError(ErrorCodeOf(resp.body)) THEN "terminal"
              ELSE "continue"

\* LoginStep returning on every failure response
LoginStep_AnyFailureReturns(resp) ==
    IF RaisesBeforeBody(resp) THEN "continue"
    ELSE IF SuccessFlag(resp.body)
         THEN IF resp.body.sid = Absent THEN "continue" ELSE "success"
         ELSE "terminal"

\* LoginStep reading the identifier with .get('sid'), which raises nothing
LoginStep_NoSidCheck(resp) ==
    IF RaisesBeforeBody(resp) THEN "continue"
    ELSE IF SuccessFlag(resp.body) THEN "success"
         ELSE IF IsAuthError(ErrorCodeOf(resp.body)) THEN "terminal"
              ELSE "continue"

\* one iteration of the login loop: "success" (store and return result),
\* "terminal" (return result), "continue" (next version; an exception of the
\* try block, result['data']['sid'] of a body without sid included)
LoginStep(resp) ==
    IF RaisesBeforeBody(resp) THEN "continue"
    ELSE IF SuccessFlag(resp.body)
         THEN IF resp.body.sid = Absent THEN "continue" ELSE "success"
         ELSE IF IsAuthError(ErrorCodeOf(resp.body)) THEN "terminal"
              ELSE "continue"

\* SetAttr on an attribute of the class, which all instances share
SetAttr_Shared(attr, n, v) == [i \in DOMAIN attr |-> v]

\* self.<attr> = v  on instance n: the attributes are created per instance
\* in __init__, so the assignment reaches instance n alone
SetAttr(attr, n, v) == [attr EXCEPT ![n] = v]

\* StoreSession that files every session under the default type
StoreSession_DefaultType(cur_id, cur_type, sid, st) ==
    [id |-> sid, type |-> DefaultSessionType]

\* StoreSession that keeps a session already cached
StoreSession_KeepOld(cur_id, cur_type, sid, st) ==
    IF cur_id = None THEN [id |-> sid, type |-> st]
    ELSE [id |-> cur_id, type |-> cur_type]

\* self.current_session_id = result['data']['sid']
\* self.current_session_type = session_type
StoreSession(cur_id, cur_type, sid, st) == [id |-> sid, type |-> st]

\* KeptSession of a loop body that assigns the session type before it reads
\* result['data']['sid']
KeptSession_TypeFirst(cur_id, cur_type, resp, st) ==
    IF LoginRaises(resp) = "KeyError" THEN [id |-> cur_id, type |-> st]
    ELSE [id |-> cur_id, type |-> cur_type]

\* the cache after an iteration that stores nothing: the right-hand side of
\* the first assignment, result['data']['sid'], is evaluated before either
\* attribute is assigned, so an iteration that raises has assigned neither
KeptSession(cur_id, cur_type, resp, st) == [id |-> cur_id, type |-> cur_type]

\* {'success': False, 'error': {'code': 'unknown', 'message': ...}}
AuthenticationFailed ==
    Dict("false", "unknown", "Authentication failed", Absent, Absent)

\* the caller makes one call at a time
NoCallRunning == pc = "idle"

\* the frame of a call that is not running
NoFrame ==
    /\ op' = "none" /\ pc' = "idle" /\ self' = "n1"
    /\ session_type' = None
    /\ arg_session_id' = None /\ arg_session_type' = None
    /\ logout_session_id' = None /\ logout_session_type' = None
    /\ idx' = 0
    /\ last_error' = NoneDict
    /\ requests' = <<>>
    /\ lastResp' = NoResp
    /\ result' = NoneDict
    /\ dns_data' = NoData
    /\ raised' = NoException
    /\ dns_op' = NoDnsOp /\ dns_call' = NoDnsCall /\ op_return' = NoData
    /\ entry_session_id' = None /\ entry_session_type' = DefaultSessionType

\* the finished call's value has gone to the caller and its frame is dropped
Return ==
    /\ pc = "done"
    /\ NoFrame
    /\ UNCHANGED <<authVars, session_id, histVars, thrVars>>

\* a call of login_with_session(username, password, st) on instance n
login_with_session(n, st) ==
    /\ NoCallRunning
    /\ op' = "login" /\ pc' = "loop" /\ self' = n
    /\ session_type' = st
    /\ arg_session_id' = None /\ arg_session_type' = None
    /\ logout_session_id' = None /\ logout_session_type' = None
    /\ idx' = 0
    /\ last_error' = NoneDict
    /\ requests' = <<>>
    /\ lastResp' = NoResp
    /\ result' = NoneDict
    /\ dns_data' = NoData /\ raised' = NoException
    /\ dns_op' = NoDnsOp /\ dns_call' = NoDnsCall /\ op_return' = NoData
    /\ entry_session_id' = current_session_id[n]
    /\ entry_session_type' = current_session_type[n]
    /\ UNCHANGED <<authVars, session_id, histVars, thrVars>>

\* one iteration of the for loop of login_with_session, and the return
\* after the loop when it was the last one
LoginAttempt(resp) ==
    /\ op = "login" /\ pc = "loop" /\ idx < Len(api_versions)
    /\ requests' = Append(requests,
            Get(AuthUrl, LoginPayload(api_versions[idx + 1], session_type)))
    /\ lastResp' = resp
    /\ idx' = idx + 1
    /\ LET exc     == LoginRaises(resp)
           escapes == exc /= NoError /\ ~LoginCatches(exc)
           step    == IF escapes THEN "raise" ELSE LoginStep(resp) IN
       /\ raised' = IF escapes THEN Propagated(exc) ELSE raised
       /\ CASE step = "success" ->
                /\ LET new == StoreSession(current_session_id[self],
                                            current_session_type[self],
                                            resp.body.sid, session_type) IN
                   /\ current_session_id' = SetAttr(current_session_id, self, new.id)
                   /\ current_session_type' =
                        SetAttr(current_session_type, self, new.type)
                /\ everAuth' = [everAuth EXCEPT ![self] = TRUE]
                /\ liveSid' = [liveSid EXCEPT ![self] = resp.body.sid]
                /\ liveType' = [liveType EXCEPT ![self] = session_type]
                /\ result' = resp.body
                /\ pc' = "done"
           [] step = "terminal" ->
                /\ result' = resp.body
                /\ pc' = "done"
                /\ UNCHANGED <<authVars, histVars>>
           [] step = "raise" ->
                /\ pc' = "done"
                /\ UNCHANGED <<result, authVars, histVars>>
           [] OTHER ->
                /\ IF idx + 1 = Len(api_versions)
                   THEN result' = AuthenticationFailed /\ pc' = "done"
                   ELSE UNCHANGED <<result, pc>>
                /\ LET kept == KeptSession(current_session_id[self],
                                           current_session_type[self],
                                           resp, session_type) IN
                   /\ current_session_id' = SetAttr(current_session_id, self, kept.id)
                   /\ current_session_type' =
                        SetAttr(current_session_type, self, kept.type)
                /\ UNCHANGED histVars
    /\ UNCHANGED <<session_id, op, self, session_type, arg_session_id,
                   arg_session_type, logout_session_id, logout_session_type,
                   last_error, dns_data, dnsFrame, entry_session_id,
                   entry_session_type, thrVars>>

\* ------------------------------------------------------------------ logout
\* Falsy that takes only the empty string for false
Falsy_OnlyEmpty(a) == a = ""

\* Python falsiness of a value that is None or a string
Falsy(a) == a = None \/ a = ""

\* a or b  that never falls back to b
PyOr_First(a, b) == a

\* Python's  a or b  on values that are None or strings
PyOr(a, b) == IF Falsy(a) THEN b ELSE a

\* IsSessionInvalidError without the last code of the list
IsSessionInvalidError_No106(code) == code \in {"105"}

\* error_code in [105, 106]
IsSessionInvalidError(code) == code \in {"105", "106"}

\* the list of logout, with the newest version tried last
logout_api_versions_Ascending == <<"2", "3", "6", "7">>

\* api_versions = ['7', '6', '3', '2']  of logout
logout_api_versions == <<"7", "6", "3", "2">>

\* the payload of one logout request
LogoutPayload(version, st, sid) ==
    [api |-> "SYNO.API.Auth", version |-> version, method |-> "logout",
     session |-> st, _sid |-> sid]

NoSessionError ==
    Dict("false", "no_session", "No session ID provided or available", Absent, Absent)

NetworkError == Dict("false", "network_error", "Network error", Absent, Absent)

UnknownError == Dict("false", "unknown_error", "Unexpected error", Absent, Absent)

AllVersionsFailed ==
    Dict("false", "all_versions_failed", "Logout failed with all API versions",
         Absent, Absent)

\* the except clause an exception of the try block lands in: a
\* requests.RequestException gives network_error, any other unknown_error
ExceptionError(resp, cls) ==
    IF \/ resp.transport = "conn_error"
       \/ RaisesForStatus(resp.status)
       \/ (resp.parse = "not_json" /\ cls = "RequestException")
    THEN NetworkError
    ELSE UnknownError

\* the exception the try block of a logout iteration raises
LogoutRaises(resp) == TryRaises(resp)

\* except requests.RequestException:  followed by  except Exception:
\* together they catch every exception the try block can raise
LogoutCatches(exc) == TRUE

\* LogoutStep taking the answer "session invalid" for a logout that worked
LogoutStep_InvalidIsSuccess(resp, cls, le) ==
    IF RaisesBeforeBody(resp)
    THEN [kind |-> "continue", last_error |-> ExceptionError(resp, cls)]
    ELSE IF SuccessFlag(resp.body) \/ IsSessionInvalidError(ErrorCodeOf(resp.body))
         THEN [kind |-> "success", last_error |-> le]
         ELSE [kind |-> "continue", last_error |-> resp.body]

\* one iteration of the logout loop: what it does next ("success", "break",
\* "continue") and the value last_error has after it
LogoutStep(resp, cls, le) ==
    IF RaisesBeforeBody(resp)
    THEN [kind |-> "continue", last_error |-> ExceptionError(resp, cls)]
    ELSE IF SuccessFlag(resp.body)
         THEN [kind |-> "success", last_error |-> le]
         ELSE IF IsSessionInvalidError(ErrorCodeOf(resp.body))
              THEN [kind |-> "break", last_error |-> resp.body]
              ELSE [kind |-> "continue", last_error |-> resp.body]

\* OwnSession that takes every session for the cached one
OwnSession_Always(lsid, cur) == TRUE

\* OwnSession that never recognises the cached session
OwnSession_Never(lsid, cur) == FALSE

\* logout_session_id == self.current_session_id
OwnSession(lsid, cur) == lsid = cur

\* ClearSession without the first of its two assignments
ClearSession_KeepId(cur_id, cur_type) ==
    [id |-> cur_id, type |-> DefaultSessionType]

\* self.current_session_id = None
\* self.current_session_type = 'FileStation'
ClearSession(cur_id, cur_type) == [id |-> None, type |-> DefaultSessionType]

\* the return after the loop:  if last_error: return last_error  else ...
LogoutFailure(le) == IF Truthy(le) THEN le ELSE AllVersionsFailed

\* what a caller passes for session_id and for session_type (Optional[str]):
\* nothing, a string, the empty string
LogoutSidArgs  == SIDs \cup {None, ""}
LogoutTypeArgs == SessionTypes \cup {None, ""}

\* a call of logout(sid, st) on instance n, up to the version loop; the
\* whole call when there is no session to log out
logout(n, sid, st) ==
    /\ NoCallRunning
    /\ op' = "logout" /\ self' = n
    /\ session_type' = None
    /\ arg_session_id' = sid /\ arg_session_type' = st
    /\ logout_session_id' = PyOr(sid, current_session_id[n])
    /\ logout_session_type' = PyOr(st, current_session_type[n])
    /\ idx' = 0
    /\ last_error' = NoneDict
    /\ requests' = <<>>
    /\ lastResp' = NoResp
    /\ dns_data' = NoData /\ raised' = NoException
    /\ dns_op' = NoDnsOp /\ dns_call' = NoDnsCall /\ op_return' = NoData
    /\ entry_session_id' = current_session_id[n]
    /\ entry_session_type' = current_session_type[n]
    /\ IF Falsy(PyOr(sid, current_session_id[n]))
       THEN result' = NoSessionError /\ pc' = "done"
       ELSE result' = NoneDict /\ pc' = "loop"
    /\ UNCHANGED <<authVars, session_id, histVars, thrVars>>

\* one iteration of the for loop of logout, and the return after the loop
\* when the iteration ends it
LogoutAttempt(resp, cls) ==
    /\ op = "logout" /\ pc = "loop" /\ idx < Len(logout_api_versions)
    /\ requests' = Append(requests,
            Get(AuthUrl, LogoutPayload(logout_api_versions[idx + 1], logout_session_type,
                                       logout_session_id)))
    /\ lastResp' = resp
    /\ idx' = idx + 1
    /\ LET exc     == LogoutRaises(resp)
           escapes == exc /= NoError /\ ~LogoutCatches(exc)
           step    == IF escapes THEN [kind |-> "raise", last_error |-> last_error]
                      ELSE LogoutStep(resp, cls, last_error) IN
       /\ raised' = IF escapes THEN Propagated(exc) ELSE raised
       /\ last_error' = step.last_error
       /\ CASE step.kind = "success" ->
                /\ IF OwnSession(logout_session_id, current_session_id[self])
                   THEN LET new == ClearSession(current_session_id[self],
                                                current_session_type[self]) IN
                        /\ current_session_id' =
                              SetAttr(current_session_id, self, new.id)
                        /\ current_session_type' =
                              SetAttr(current_session_type, self, new.type)
                   ELSE UNCHANGED authVars
                /\ liveSid' = IF logout_session_id = liveSid[self]
                              THEN [liveSid EXCEPT ![self] = None]
                              ELSE liveSid
                /\ liveType' = IF logout_session_id = liveSid[self]
                               THEN [liveType EXCEPT ![self] = None]
                               ELSE liveType
                /\ result' = resp.body
                /\ pc' = "done"
           [] step.kind = "raise" ->
                /\ pc' = "done"
                /\ UNCHANGED <<result, authVars, liveSid, liveType>>
           [] step.kind = "break" \/
              (step.kind = "continue" /\ idx + 1 = Len(logout_api_versions)) ->
                /\ result' = LogoutFailure(step.last_error)
                /\ pc' = "done"
                /\ UNCHANGED <<authVars, liveSid, liveType>>
           [] OTHER ->
                UNCHANGED <<result, pc, authVars, liveSid, liveType>>
    /\ UNCHANGED <<session_id, op, self, session_type, arg_session_id,
                   arg_session_type, logout_session_id, logout_session_type,
                   dns_data, dnsFrame, entry_session_id,
                   entry_session_type, everAuth, thrVars>>

\* ------------------------------------------------------- SynologyDNSServer
Zones == {ExampleCom}

\* SynologyDNSServer(base_url, session_id) built, as the control flow of the
\* library prescribes, from the sid of the session login just returned
NewSynologyDNSServer ==
    /\ op = "login" /\ pc = "done" /\ SuccessFlag(result)
    /\ session_id' = result.sid
    /\ UNCHANGED <<authVars, op, pc, self, session_type, arg_session_id,
                   arg_session_type, logout_session_id, logout_session_type,
                   idx, last_error, requests, lastResp, result, dns_data,
                   raised, dnsFrame, entry_session_id, entry_session_type,
                   histVars, thrVars>>

\* RequestParams with the identifier left out
RequestParams_NoneSid(api, version, method, sid, params) ==
    params @@ [api |-> api, version |-> version, method |-> method, _sid |-> None]

\* request_params = {'api':..., 'version':..., 'method':..., '_sid':..., **params}
RequestParams(api, version, method, sid, params) ==
    params @@ [api |-> api, version |-> version, method |-> method, _sid |-> sid]

\* DnsRequest that takes the query path whatever use_post says
DnsRequest_AlwaysGet(api, version, method, use_post, sid, params) ==
    Get(ApiUrl, RequestParams(api, version, method, sid, params))

\* the request _make_request sends
DnsRequest(api, version, method, use_post, sid, params) ==
    IF use_post
    THEN Post(ApiUrl, RequestParams(api, version, method, sid, params))
    ELSE Get(ApiUrl, RequestParams(api, version, method, sid, params))

\* MakeRequestRaises testing  data.get('success') is False
MakeRequestRaises_IsFalse(resp) ==
    IF resp.transport = "conn_error"
    THEN [type |-> "ConnectionError", code |-> Absent, info |-> NoneDict]
    ELSE IF RaisesForStatus(resp.status)
    THEN [type |-> "HTTPError", code |-> Absent, info |-> NoneDict]
    ELSE IF resp.parse = "not_json"
    THEN [type |-> "JSONDecodeError", code |-> Absent, info |-> NoneDict]
    ELSE IF resp.parse = "not_dict"
    THEN [type |-> "AttributeError", code |-> Absent, info |-> NoneDict]
    ELSE IF resp.body.success = "false"
    THEN [type |-> "Exception", code |-> ErrorCodeOf(resp.body),
          info |-> Dict(Absent, resp.body.code, resp.body.message, Absent, Absent)]
    ELSE NoException

\* the exception _make_request leaves by on the answer resp, NoException
\* when it returns
MakeRequestRaises(resp) ==
    IF resp.transport = "conn_error"
    THEN [type |-> "ConnectionError", code |-> Absent, info |-> NoneDict]
    ELSE IF RaisesForStatus(resp.status)
    THEN [type |-> "HTTPError", code |-> Absent, info |-> NoneDict]
    ELSE IF resp.parse = "not_json"
    THEN [type |-> "JSONDecodeError", code |-> Absent, info |-> NoneDict]
    ELSE IF resp.parse = "not_dict"
    THEN [type |-> "AttributeError", code |-> Absent, info |-> NoneDict]
    ELSE IF ~SuccessFlag(resp.body)
    THEN [type |-> "Exception", code |-> ErrorCodeOf(resp.body),
          info |-> Dict(Absent, resp.body.code, resp.body.message, Absent, Absent)]
    ELSE NoException

\* the value _make_request returns on the answer resp:  data.get('data', {})
MakeRequestReturns(resp) ==
    IF MakeRequestRaises(resp) /= NoException THEN NoData
    ELSE IF resp.body.data = Absent THEN "{}" ELSE resp.body.data

\* _make_request(api, version, method, use_post, **params) meeting resp
_make_request(api, version, method, use_post, params, resp) ==
    /\ NoCallRunning
    /\ session_id /= None
    /\ op' = "dns" /\ pc' = "done"
    /\ dns_call' = [api |-> api, version |-> version, method |-> method,
                    use_post |-> use_post, params |-> params]
    /\ requests' = <<DnsRequest(api, version, method, use_post, session_id, params)>>
    /\ lastResp' = resp
    /\ raised' = MakeRequestRaises(resp)
    /\ dns_data' = MakeRequestReturns(resp)
    /\ result' = NoneDict
    /\ session_type' = None
    /\ arg_session_id' = None /\ arg_session_type' = None
    /\ logout_session_id' = None /\ logout_session_type' = None
    /\ idx' = 0
    /\ last_error' = NoneDict
    /\ entry_session_id' = None /\ entry_session_type' = DefaultSessionType
    /\ UNCHANGED <<authVars, session_id, self, histVars, thrVars>>

\* get_server_status()
get_server_status(resp) ==
    /\ _make_request("SYNO.DNSServer.DaemonStatus", "1", "get", FALSE, <<>>, resp)
    /\ dns_op' = [name |-> "get_server_status"]
    /\ op_return' = MakeRequestReturns(resp)

\* get_zone(zone_name)
get_zone(zone_name, resp) ==
    /\ _make_request("SYNO.DNSServer.Zone", "1", "get", FALSE,
                     [zone_name |-> zone_name, domain_name |-> zone_name], resp)
    /\ dns_op' = [name |-> "get_zone", zone_name |-> zone_name]
    /\ op_return' = MakeRequestReturns(resp)

\* delete_zone(zone_name)
delete_zone(zone_name, resp) ==
    /\ _make_request("SYNO.DNSServer.Zone", "1", "delete", TRUE,
                     [zone_name |-> zone_name], resp)
    /\ dns_op' = [name |-> "delete_zone", zone_name |-> zone_name]
    /\ op_return' = MakeRequestReturns(resp)

\* the arguments the resource operations are called with
Names        == {At, Www, WwwFqdn, EmptyStr}
RecordTypes  == {<<"A">>, <<"M", "X">>}
RecordData   == {Ip1, <<"a", Quote, "b">>}
RecordKeys   == {<<"k", "1">>}
TtlValues    == {PyInt(0), PyInt(300), PyInt(86400)}
TtlStrings   == {<<"3", "0", "0">>, EmptyStr}
Forwarders   == {<<Ip1>>, <<Ip1, Ip2>>, Ip1}
FileTypes    == {<<"m", "a", "s", "t", "e", "r">>, <<"s", "l", "a", "v", "e">>}
ZoneContents == {<<"$", "T", "T", "L">>}
Serials      == {PyInt(2024)}
SoaNames     == {<<"n", "s", ".">>}
SoaMails     == {<<"a", "@", "b">>}
SoaTimes     == {PyInt(60)}

\* the ways to pass an optional argument over S: left out, or one value of S
Opt(S) == {<<>>} \cup {<<v>> : v \in S}

\* the value the operation sees: None when the argument was left out
Arg(o) == IF Len(o) = 0 THEN None ELSE o[1]

\* params[key] = val  when val is not None
Optional(key, val) == IF val = None THEN <<>> ELSE (key :> val)

\* the list comprehension of list_zones / list_records over data.get('items', [])
ItemsView(fields, data) ==
    IF data = NoData THEN NoData ELSE [items_of |-> data, fields |-> fields]

\* list_zones calling version '2'
list_zones_V2(resp) ==
    /\ _make_request("SYNO.DNSServer.Zone", "2", "list", FALSE, <<>>, resp)
    /\ dns_op' = [name |-> "list_zones"]
    /\ op_return' = ItemsView({"zone_name", "domain_name", "zone_type", "domain_type",
                                "zone_enable", "is_readonly"}, MakeRequestReturns(resp))

\* list_zones()
list_zones(resp) ==
    /\ _make_request("SYNO.DNSServer.Zone", "1", "list", FALSE, <<>>, resp)
    /\ dns_op' = [name |-> "list_zones"]
    /\ op_return' = ItemsView({"zone_name", "domain_name", "zone_type", "domain_type",
                                "zone_enable", "is_readonly"}, MakeRequestReturns(resp))

\* create_master_zone(zone_name, serial, refresh, retry, expire, ttl)
create_master_zone(zone_name, serial, refresh, retry, expire, ttl, resp) ==
    /\ _make_request("SYNO.DNSServer.Zone", "1", "create", TRUE,
                     Optional("serial", serial) @@
                     [zone_name |-> zone_name, refresh |-> refresh, retry |-> retry,
                      expire |-> expire, ttl |-> ttl], resp)
    /\ dns_op' = [name |-> "create_master_zone", zone_name |-> zone_name]
    /\ op_return' = MakeRequestReturns(resp)

\* create_forward_zone(zone_name, forwarders)
create_forward_zone(zone_name, forwarders, resp) ==
    /\ _make_request("SYNO.DNSServer.Zone", "1", "create", TRUE,
                     [zone_name |-> zone_name, zone_type |-> "forward",
                      forwarders |-> IF forwarders = Ip1 THEN forwarders
                                     ELSE Join(<<",">>, forwarders)], resp)
    /\ dns_op' = [name |-> "create_forward_zone", zone_name |-> zone_name]
    /\ op_return' = MakeRequestReturns(resp)

\* enable_zone(zone_name)
enable_zone(zone_name, resp) ==
    /\ _make_request("SYNO.DNSServer.Zone", "1", "set", TRUE,
                     [zone_name |-> zone_name, domain_name |-> zone_name,
                      zone_enable |-> PyTrue], resp)
    /\ dns_op' = [name |-> "enable_zone", zone_name |-> zone_name]
    /\ op_return' = MakeRequestReturns(resp)

\* disable_zone(zone_name)
disable_zone(zone_name, resp) ==
    /\ _make_request("SYNO.DNSServer.Zone", "1", "set", TRUE,
                     [zone_name |-> zone_name, domain_name |-> zone_name,
                      zone_enable |-> PyFalse], resp)
    /\ dns_op' = [name |-> "disable_zone", zone_name |-> zone_name]
    /\ op_return' = MakeRequestReturns(resp)

\* list_records(zone_name)
list_records(zone_name, resp) ==
    /\ _make_request("SYNO.DNSServer.Zone.Record", "1", "list", FALSE,
                     [zone_name |-> zone_name, domain_name |-> zone_name], resp)
    /\ dns_op' = [name |-> "list_records", zone_name |-> zone_name]
    /\ op_return' = ItemsView({"record_key", "name", "type", "rdata", "ttl",
                                "full_record"}, MakeRequestReturns(resp))

\* the rr_owner create_record builds from name and zone_name
create_rr_owner(name, zone_name) ==
    IF ~EndsWith(name, ".")
    THEN IF name = At
         THEN <<Quote>> \o zone_name \o <<".">> \o <<Quote>>
         ELSE <<Quote>> \o name \o <<".">> \o zone_name \o <<".">> \o <<Quote>>
    ELSE <<Quote>> \o name \o <<Quote>>

\* create_record(zone_name, name, record_type, rdata, ttl)
create_record(zone_name, name, record_type, rdata, ttl, resp) ==
    /\ _make_request("SYNO.DNSServer.Zone.Record", "1", "create", TRUE,
                     [zone_name |-> Quoted(zone_name),
                      domain_name |-> Quoted(zone_name),
                      rr_owner |-> create_rr_owner(name, zone_name),
                      rr_type |-> Quoted(record_type),
                      rr_info |-> Quoted(rdata),
                      rr_ttl |-> Quoted(Format(ttl))], resp)
    /\ dns_op' = [name |-> "create_record", zone_name |-> zone_name,
                  record_name |-> name, record_type |-> record_type,
                  rdata |-> rdata, ttl |-> ttl]
    /\ op_return' = MakeRequestReturns(resp)

\* update_rr_owner without the case of the root marker '@'
update_rr_owner_NoAt(name, zone_name) ==
    IF ~EndsWith(name, ".")
    THEN <<Quote>> \o name \o <<".">> \o zone_name \o <<".">> \o <<Quote>>
    ELSE <<Quote>> \o name \o <<Quote>>

\* the rr_owner update_record builds from name and zone_name
update_rr_owner(name, zone_name) ==
    IF ~EndsWith(name, ".")
    THEN IF name = At
         THEN <<Quote>> \o zone_name \o <<".">> \o <<Quote>>
         ELSE <<Quote>> \o name \o <<".">> \o zone_name \o <<".">> \o <<Quote>>
    ELSE <<Quote>> \o name \o <<Quote>>

\* update_record sending the default ttl when none is given
update_record_DefaultTtl(zone_name, record_key, name, record_type, rdata, ttl, resp) ==
    /\ _make_request("SYNO.DNSServer.Zone.Record", "1", "set", TRUE,
                     (IF name /= None
                      THEN "rr_owner" :> update_rr_owner(name, zone_name)
                      ELSE <<>>) @@
                     (IF record_type /= None
                      THEN "rr_type" :> Quoted(record_type) ELSE <<>>) @@
                     (IF rdata /= None THEN "rr_info" :> Quoted(rdata) ELSE <<>>) @@
                     ("rr_ttl" :> Quoted(Format(IF ttl /= None THEN ttl
                                                ELSE PyInt(86400)))) @@
                     [zone_name |-> Quoted(zone_name),
                      domain_name |-> Quoted(zone_name),
                      record_key |-> Quoted(record_key)], resp)
    /\ dns_op' = [name |-> "update_record", zone_name |-> zone_name,
                  record_key |-> record_key, record_name |-> name,
                  record_type |-> record_type, rdata |-> rdata, ttl |-> ttl]
    /\ op_return' = MakeRequestReturns(resp)

\* update_record(zone_name, record_key, name, record_type, rdata, ttl)
update_record(zone_name, record_key, name, record_type, rdata, ttl, resp) ==
    /\ _make_request("SYNO.DNSServer.Zone.Record", "1", "set", TRUE,
                     (IF name /= None
                      THEN "rr_owner" :> update_rr_owner(name, zone_name)
                      ELSE <<>>) @@
                     (IF record_type /= None
                      THEN "rr_type" :> Quoted(record_type) ELSE <<>>) @@
                     (IF rdata /= None THEN "rr_info" :> Quoted(rdata) ELSE <<>>) @@
                     (IF ttl /= None
                      THEN "rr_ttl" :> Quoted(Format(ttl)) ELSE <<>>) @@
                     [zone_name |-> Quoted(zone_name),
                      domain_name |-> Quoted(zone_name),
                      record_key |-> Quoted(record_key)], resp)
    /\ dns_op' = [name |-> "update_record", zone_name |-> zone_name,
                  record_key |-> record_key, record_name |-> name,
                  record_type |-> record_type, rdata |-> rdata, ttl |-> ttl]
    /\ op_return' = MakeRequestReturns(resp)

\* rr_ttl or '86400'
TtlOrDefault(rr_ttl) ==
    IF rr_ttl = None \/ rr_ttl = EmptyStr THEN <<"8", "6", "4", "0", "0">> ELSE rr_ttl

\* full_record with the ttl moved behind the data
full_record_TtlLast(rr_owner, rr_type, rr_info, rr_ttl) ==
    rr_owner \o <<Tab>> \o rr_type \o <<Tab>> \o rr_info
             \o <<Tab>> \o TtlOrDefault(rr_ttl)

\* the full_record line delete_record builds
full_record(rr_owner, rr_type, rr_info, rr_ttl) ==
    rr_owner \o <<Tab>> \o TtlOrDefault(rr_ttl) \o <<Tab>> \o rr_type
             \o <<Tab>> \o rr_info

\* the keys of an item, in the order the dict literal names them
ItemKeys ==
    <<"zone_name", "domain_name", "rr_owner", "rr_type", "rr_ttl", "rr_info",
      "full_record">>

\* the items list delete_record builds
DeleteItems(zone_name, rr_owner, rr_type, rr_info, rr_ttl) ==
    << [zone_name |-> zone_name,
        domain_name |-> zone_name,
        rr_owner |-> rr_owner,
        rr_type |-> rr_type,
        rr_ttl |-> TtlOrDefault(rr_ttl),
        rr_info |-> rr_info,
        full_record |-> full_record(rr_owner, rr_type, rr_info, rr_ttl)] >>

\* delete_record(zone_name, rr_owner, rr_type, rr_info, rr_ttl)
delete_record(zone_name, rr_owner, rr_type, rr_info, rr_ttl, resp) ==
    /\ _make_request("SYNO.DNSServer.Zone.Record", "1", "delete", TRUE,
                     [items |-> JsonDumps(ItemKeys,
                                          DeleteItems(zone_name, rr_owner, rr_type,
                                                      rr_info, rr_ttl))], resp)
    /\ dns_op' = [name |-> "delete_record", zone_name |-> zone_name,
                  rr_owner |-> rr_owner, rr_type |-> rr_type,
                  rr_info |-> rr_info, rr_ttl |-> rr_ttl,
                  items |-> DeleteItems(zone_name, rr_owner, rr_type, rr_info,
                                        rr_ttl)]
    /\ op_return' = MakeRequestReturns(resp)

\* get_soa(zone_name)
get_soa(zone_name, resp) ==
    /\ _make_request("SYNO.DNSServer.Zone.SOA", "1", "get", FALSE,
                     [zone_name |-> zone_name, domain_name |-> zone_name], resp)
    /\ dns_op' = [name |-> "get_soa", zone_name |-> zone_name]
    /\ op_return' = MakeRequestReturns(resp)

\* update_soa(zone_name, primary_ns, admin_email, serial, refresh, retry,
\* expire, ttl)
update_soa(zone_name, primary_ns, admin_email, serial, refresh, retry, expire, ttl, resp) ==
    /\ _make_request("SYNO.DNSServer.Zone.SOA", "1", "set", TRUE,
                     Optional("primary_ns", primary_ns) @@
                     Optional("admin_email", admin_email) @@
                     Optional("serial", serial) @@
                     Optional("refresh", refresh) @@
                     Optional("retry", retry) @@
                     Optional("expire", expire) @@
                     Optional("ttl", ttl) @@
                     [zone_name |-> zone_name], resp)
    /\ dns_op' = [name |-> "update_soa", zone_name |-> zone_name]
    /\ op_return' = MakeRequestReturns(resp)

\* get_master_zone_conf(zone_name)
get_master_zone_conf(zone_name, resp) ==
    /\ _make_request("SYNO.DNSServer.Zone.MasterZoneConf", "1", "get", FALSE,
                     [zone_name |-> zone_name], resp)
    /\ dns_op' = [name |-> "get_master_zone_conf", zone_name |-> zone_name]
    /\ op_return' = MakeRequestReturns(resp)

\* get_forward_zone_conf(zone_name)
get_forward_zone_conf(zone_name, resp) ==
    /\ _make_request("SYNO.DNSServer.Zone.ForwardZoneConf", "1", "get", FALSE,
                     [zone_name |-> zone_name], resp)
    /\ dns_op' = [name |-> "get_forward_zone_conf", zone_name |-> zone_name]
    /\ op_return' = MakeRequestReturns(resp)

\* export_zone(zone_name, file_type):  data.get('zone_file', '')
export_zone(zone_name, file_type, resp) ==
    /\ _make_request("SYNO.DNSServer.Zone", "1", "export", FALSE,
                     [zone_name |-> zone_name, domain_name |-> zone_name,
                      file_type |-> file_type], resp)
    /\ dns_op' = [name |-> "export_zone", zone_name |-> zone_name]
    /\ op_return' = IF MakeRequestReturns(resp) = NoData THEN NoData
                    ELSE [zone_file_of |-> MakeRequestReturns(resp)]

\* import_zone(zone_name, zone_content)
import_zone(zone_name, zone_content, resp) ==
    /\ _make_request("SYNO.DNSServer.Zone", "1", "import", TRUE,
                     [zone_name |-> zone_name, zone_content |-> zone_content], resp)
    /\ dns_op' = [name |-> "import_zone", zone_name |-> zone_name]
    /\ op_return' = MakeRequestReturns(resp)

\* a caller of _make_request other than the public operations: any version,
\* either verb, any keyword arguments
DirectVersions == {"1", "2"}
DirectParams ==
    {<<>>, [zone_name |-> ExampleCom], [limit |-> PyInt(10), offset |-> PyInt(0)],
     [_sid |-> <<"o", "t", "h", "e", "r">>]}

DirectCall(version, use_post, params, resp) ==
    /\ _make_request("SYNO.DNSServer.Zone", version, "list", use_post, params, resp)
    /\ dns_op' = [name |-> "_make_request"]
    /\ op_return' = MakeRequestReturns(resp)

\* ------------------------------------------- threads on one negotiator
\* Several threads call login_with_session and logout on the instance n1.
\* A step is one statement that reads or writes the instance's attributes;
\* the version loop makes one attempt per step.
Shared == "n1"

\* answers the attempts of the threads meet
ThreadLoginResponses == {Ok(LoginOk(s)) : s \in SIDs} \cup {ConnError}
ThreadLogoutResponses ==
    {Ok(Dict("true", Absent, Absent, Absent, Absent)), ConnError, Ok(Fail("105"))}

\* CanEnter of callers who take no lock
CanEnter_Always(t) == TRUE

\* may thread t begin a call: always when the callers take no lock, else
\* when no other call is in progress
CanEnter(t) == ~exclusive \/ lock = "free"

\* thread t begins call number calls + 1 of the given kind
BeginCall(t, kind, st) ==
    /\ t_pc[t] = "idle"
    /\ calls < MaxCalls
    /\ CanEnter(t)
    /\ calls' = calls + 1
    /\ t_call' = [t_call EXCEPT ![t] = calls + 1]
    /\ call_info' = [call_info EXCEPT ![calls + 1] =
                        [kind |-> kind, session_type |-> st]]
    /\ lock' = IF exclusive THEN t ELSE lock
    /\ t_idx' = [t_idx EXCEPT ![t] = 0]

\* thread t returns from its call
EndCall(t) ==
    /\ t_pc' = [t_pc EXCEPT ![t] = "idle"]
    /\ t_call' = [t_call EXCEPT ![t] = 0]
    /\ t_session_type' = [t_session_type EXCEPT ![t] = None]
    /\ t_sid' = [t_sid EXCEPT ![t] = None]
    /\ t_idx' = [t_idx EXCEPT ![t] = 0]
    /\ lock' = IF exclusive THEN "free" ELSE lock

\* thread t calls login_with_session(username, password, st)
T_login(t, st) ==
    /\ BeginCall(t, "login", st)
    /\ t_pc' = [t_pc EXCEPT ![t] = "login_loop"]
    /\ t_session_type' = [t_session_type EXCEPT ![t] = st]
    /\ UNCHANGED <<authVars, seqVars, exclusive, id_from, type_from, t_sid>>

\* one iteration of thread t's login loop, up to the first assignment
T_LoginAttempt(t, resp) ==
    /\ t_pc[t] = "login_loop"
    /\ LET step == LoginStep(resp) IN
       IF step = "success"
       THEN /\ t_sid' = [t_sid EXCEPT ![t] = resp.body.sid]
            /\ t_pc' = [t_pc EXCEPT ![t] = "store_id"]
            /\ UNCHANGED <<lock, t_call, t_session_type, t_idx>>
       ELSE IF step = "terminal" \/ t_idx[t] + 1 = Len(api_versions)
       THEN EndCall(t)
       ELSE /\ t_idx' = [t_idx EXCEPT ![t] = t_idx[t] + 1]
            /\ UNCHANGED <<lock, t_pc, t_call, t_session_type, t_sid>>
    /\ UNCHANGED <<authVars, seqVars, exclusive, calls, call_info, id_from,
                   type_from>>

\* self.current_session_id = result['data']['sid']
T_StoreId(t) ==
    /\ t_pc[t] = "store_id"
    /\ current_session_id' = SetAttr(current_session_id, Shared, t_sid[t])
    /\ id_from' = t_call[t]
    /\ t_pc' = [t_pc EXCEPT ![t] = "store_type"]
    /\ UNCHANGED <<current_session_type, seqVars, exclusive, lock, calls,
                   call_info, type_from, t_call, t_session_type, t_sid, t_idx>>

\* self.current_session_type = session_type, and the return
T_StoreType(t) ==
    /\ t_pc[t] = "store_type"
    /\ current_session_type' =
          SetAttr(current_session_type, Shared, t_session_type[t])
    /\ type_from' = t_call[t]
    /\ EndCall(t)
    /\ UNCHANGED <<current_session_id, seqVars, exclusive, calls, call_info,
                   id_from>>

\* thread t calls logout()
T_logout(t) ==
    /\ BeginCall(t, "logout", None)
    /\ t_pc' = [t_pc EXCEPT ![t] = "read_id"]
    /\ UNCHANGED <<authVars, seqVars, exclusive, id_from, type_from,
                   t_session_type, t_sid>>

\* logout_session_id = session_id or self.current_session_id
T_ReadId(t) ==
    /\ t_pc[t] = "read_id"
    /\ t_sid' = [t_sid EXCEPT ![t] = PyOr(None, current_session_id[Shared])]
    /\ t_pc' = [t_pc EXCEPT ![t] = "read_type"]
    /\ UNCHANGED <<authVars, seqVars, exclusive, lock, calls, call_info, id_from,
                   type_from, t_call, t_session_type, t_idx>>

\* logout_session_type = session_type or self.current_session_type, and the
\* return of no_session when there is no identifier
T_ReadType(t) ==
    /\ t_pc[t] = "read_type"
    /\ IF Falsy(t_sid[t])
       THEN EndCall(t)
       ELSE /\ t_session_type' = [t_session_type EXCEPT ![t] =
                                     PyOr(None, current_session_type[Shared])]
            /\ t_pc' = [t_pc EXCEPT ![t] = "logout_loop"]
            /\ UNCHANGED <<lock, t_call, t_sid, t_idx>>
    /\ UNCHANGED <<authVars, seqVars, exclusive, calls, call_info, id_from,
                   type_from>>

\* one iteration of thread t's logout loop
T_LogoutAttempt(t, resp) ==
    /\ t_pc[t] = "logout_loop"
    /\ LET step == LogoutStep(resp, "RequestException", NoneDict) IN
       IF step.kind = "success"
       THEN /\ t_pc' = [t_pc EXCEPT ![t] = "check_own"]
            /\ UNCHANGED <<lock, t_call, t_session_type, t_sid, t_idx>>
       ELSE IF step.kind = "break" \/ t_idx[t] + 1 = Len(logout_api_versions)
       THEN EndCall(t)
       ELSE /\ t_idx' = [t_idx EXCEPT ![t] = t_idx[t] + 1]
            /\ UNCHANGED <<lock, t_pc, t_call, t_session_type, t_sid>>
    /\ UNCHANGED <<authVars, seqVars, exclusive, calls, call_info, id_from,
                   type_from>>

\* if logout_session_id == self.current_session_id:
T_CheckOwn(t) ==
    /\ t_pc[t] = "check_own"
    /\ IF OwnSession(t_sid[t], current_session_id[Shared])
       THEN /\ t_pc' = [t_pc EXCEPT ![t] = "clear_id"]
            /\ UNCHANGED <<lock, t_call, t_session_type, t_sid, t_idx>>
       ELSE EndCall(t)
    /\ UNCHANGED <<authVars, seqVars, exclusive, calls, call_info, id_from,
                   type_from>>

\* self.current_session_id = None
T_ClearId(t) ==
    /\ t_pc[t] = "clear_id"
    /\ current_session_id' = SetAttr(current_session_id, Shared, None)
    /\ id_from' = t_call[t]
    /\ t_pc' = [t_pc EXCEPT ![t] = "clear_type"]
    /\ UNCHANGED <<current_session_type, seqVars, exclusive, lock, calls,
                   call_info, type_from, t_call, t_session_type, t_sid, t_idx>>

\* self.current_session_type = 'FileStation', and the return
T_ClearType(t) ==
    /\ t_pc[t] = "clear_type"
    /\ current_session_type' =
          SetAttr(current_session_type, Shared, DefaultSessionType)
    /\ type_from' = t_call[t]
    /\ EndCall(t)
    /\ UNCHANGED <<current_session_id, seqVars, exclusive, calls, call_info,
                   id_from>>

\* ------------------------------------------------------------ specification
Next ==
    \/ \E n \in Instances, st \in SessionTypes : login_with_session(n, st)
    \/ \E resp \in LoginResponses : LoginAttempt(resp)
    \/ \E n \in Instances, sid \in LogoutSidArgs, st \in LogoutTypeArgs :
          logout(n, sid, st)
    \/ \E resp \in LogoutResponses : \E cls \in ErrorClassesOf(resp) :
          LogoutAttempt(resp, cls)
    \/ NewSynologyDNSServer
    \/ \E resp \in DnsResponses : get_server_status(resp)
    \/ \E z \in Zones, resp \in DnsResponses : get_zone(z, resp)
    \/ \E z \in Zones, resp \in DnsResponses : delete_zone(z, resp)
    \/ Return

Spec == Init /\ [][Next]_vars

\* the resource client alone, constructed with the identifier of a session
InitDns == InitNegotiators /\ session_id \in SIDs

NextDns ==
    \/ \E resp \in DnsResponses : list_zones(resp)
    \/ \E z \in Zones, resp \in DnsResponses : get_zone(z, resp)
    \/ \E z \in Zones, serial \in Opt(Serials), resp \in DnsResponses :
          create_master_zone(z, Arg(serial), PyInt(10800), PyInt(3600),
                             PyInt(604800), PyInt(86400), resp)
    \/ \E z \in Zones, f \in Forwarders, resp \in DnsResponses :
          create_forward_zone(z, f, resp)
    \/ \E z \in Zones, resp \in DnsResponses : delete_zone(z, resp)
    \/ \E z \in Zones, resp \in DnsResponses : enable_zone(z, resp)
    \/ \E z \in Zones, resp \in DnsResponses : disable_zone(z, resp)
    \/ \E z \in Zones, resp \in DnsResponses : list_records(z, resp)
    \/ \E z \in Zones, name \in Names, type \in RecordTypes, rdata \in RecordData,
          ttl \in TtlValues, resp \in DnsResponses :
          create_record(z, name, type, rdata, ttl, resp)
    \/ \E z \in Zones, key \in RecordKeys, name \in Opt(Names),
          type \in Opt(RecordTypes), rdata \in Opt(RecordData),
          ttl \in Opt(TtlValues), resp \in DnsResponses :
          update_record(z, key, Arg(name), Arg(type), Arg(rdata), Arg(ttl), resp)
    \/ \E z \in Zones, owner \in {WwwFqdn}, type \in RecordTypes,
          rdata \in RecordData, ttl \in Opt(TtlStrings), resp \in DnsResponses :
          delete_record(z, owner, type, rdata, Arg(ttl), resp)
    \/ \E z \in Zones, resp \in DnsResponses : get_soa(z, resp)
    \/ \E z \in Zones, ns \in Opt(SoaNames), mail \in Opt(SoaMails),
          serial \in Opt(Serials), refresh \in Opt(SoaTimes),
          retry \in Opt(SoaTimes), expire \in Opt(SoaTimes), ttl \in Opt(SoaTimes),
          resp \in DnsResponses :
          update_soa(z, Arg(ns), Arg(mail), Arg(serial), Arg(refresh), Arg(retry),
                     Arg(expire), Arg(ttl), resp)
    \/ \E z \in Zones, resp \in DnsResponses : get_master_zone_conf(z, resp)
    \/ \E z \in Zones, resp \in DnsResponses : get_forward_zone_conf(z, resp)
    \/ \E z \in Zones, ft \in FileTypes, resp \in DnsResponses :
          export_zone(z, ft, resp)
    \/ \E z \in Zones, c \in ZoneContents, resp \in DnsResponses :
          import_zone(z, c, resp)
    \/ \E resp \in DnsResponses : get_server_status(resp)
    \/ \E v \in DirectVersions, use_post \in BOOLEAN, params \in DirectParams,
          resp \in DnsResponses : DirectCall(v, use_post, params, resp)
    \/ Return

SpecDns == InitDns /\ [][NextDns]_vars

\* two threads on the negotiator n1; the callers either hold a lock around
\* every call or take none
InitThreads ==
    InitFrame /\ session_id = None /\ ThreadsAtRest /\ exclusive \in BOOLEAN

NextThreads ==
    \/ \E t \in Threads, st \in SessionTypes : T_login(t, st)
    \/ \E t \in Threads, resp \in ThreadLoginResponses : T_LoginAttempt(t, resp)
    \/ \E t \in Threads : T_StoreId(t)
    \/ \E t \in Threads : T_StoreType(t)
    \/ \E t \in Threads : T_logout(t)
    \/ \E t \in Threads : T_ReadId(t)
    \/ \E t \in Threads : T_ReadType(t)
    \/ \E t \in Threads, resp \in ThreadLogoutResponses : T_LogoutAttempt(t, resp)
    \/ \E t \in Threads : T_CheckOwn(t)
    \/ \E t \in Threads : T_ClearId(t)
    \/ \E t \in Threads : T_ClearType(t)

SpecThreads == InitThreads /\ [][NextThreads]_vars

TypeOK ==
    /\ \A n \in Instances : current_session_id[n] \in SIDs \cup {None}
    /\ \A n \in Instances : current_session_type[n] \in SessionTypes
    /\ idx \in 0..Len(api_versions)
    /\ Len(requests) <= Len(api_versions)

\* ================================================================== claims
\* the order of the version candidates the specification states
CandidateOrder == <<"7", "6", "3", "2">>

\* a 2xx answer whose body parsed to an object
IsParsed(resp) ==
    resp.transport = "ok" /\ resp.status \in 200..299 /\ resp.parse = "dict"

\* a login answer that reports success and carries a session identifier
IsLoginSuccess(resp) ==
    IsParsed(resp) /\ resp.body.success = "true" /\ resp.body.sid /= Absent

\* an answer that reports success
IsSuccessResponse(resp) == IsParsed(resp) /\ resp.body.success = "true"

\* an answer whose success field is false or missing
IsFailureResponse(resp) == IsParsed(resp) /\ resp.body.success /= "true"

\* an attempt that ended in an exception of the transport: no connection, a
\* 4xx/5xx status, or a body that is not a JSON object
IsTransportException(resp) ==
    \/ resp.transport = "conn_error"
    \/ (resp.transport = "ok" /\ (resp.status \in 400..599 \/ resp.parse /= "dict"))

LoginTerminalCodes == {"400", "402", "403", "404"}
LogoutTerminalCodes == {"105", "106"}

\* C1: login stops at the first candidate that reports success: the requests
\* made are the candidates 7, 6, 3, 2 in order up to that one (k requests for
\* candidate k), the call is over, the result is that candidate's response and
\* the instance caches its sid together with the requested session type.
C1_StopsAtFirstSuccess ==
    (op = "login" /\ Len(requests) > 0) =>
        /\ \A k \in 1..Len(requests) :
              /\ requests[k].params.version = CandidateOrder[k]
              /\ requests[k].params.method = "login"
        /\ IsLoginSuccess(lastResp) =>
              /\ pc = "done"
              /\ result = lastResp.body
              /\ result.sid = lastResp.body.sid
              /\ current_session_id[self] = lastResp.body.sid
              /\ current_session_type[self] = session_type
              /\ requests[Len(requests)].params.version = "7" => Len(requests) = 1
              /\ requests[Len(requests)].params.version = "2" => Len(requests) = 4

\* success on version 2 after three non-terminal failures: 4 requests
C1_Witness ==
    /\ op = "login" /\ pc = "done" /\ IsLoginSuccess(lastResp)
    /\ Len(requests) = 4 /\ requests[4].params.version = "2"
    /\ current_session_id[self] = result.sid

\* C2: a login failure response with code 400, 402, 403 or 404 ends the call
\* at the candidate it arrives at, and is itself the result.
C2_TerminalLoginFailure ==
    (/\ op = "login"
     /\ IsFailureResponse(lastResp)
     /\ lastResp.body.code \in LoginTerminalCodes) =>
        /\ pc = "done"
        /\ result = lastResp.body
        /\ result.code = lastResp.body.code

\* code 404 at the third candidate
C2_Witness ==
    /\ op = "login" /\ pc = "done" /\ Len(requests) = 3
    /\ IsFailureResponse(lastResp) /\ lastResp.body.code = "404"
    /\ result.code = "404"

\* a login attempt the specification calls non-terminal
IsNonTerminalLogin(resp) ==
    \/ IsTransportException(resp)
    \/ (IsFailureResponse(resp) /\ resp.body.code \notin LoginTerminalCodes)

C4_NoSessionNoRequest ==
    (op = "logout" /\ ~everAuth[self] /\ arg_session_id = None) =>
        /\ pc = "done"
        /\ result.success = "false"
        /\ result.code = "no_session"
        /\ requests = <<>>

\* such a call, with a session type given
C4_Witness ==
    /\ op = "logout" /\ pc = "done" /\ ~everAuth[self]
    /\ arg_session_id = None /\ arg_session_type = "DNSServer"
    /\ result.code = "no_session"

\* C5: an instance is logged in exactly when a login has succeeded on it and
\* the identifier of the latest such login has not since been logged out
\* successfully on it; after a successful logout of the cached identifier the
\* instance is not logged in, its identifier is unset and its session type is
\* the default.
C5_TwoStateMachine ==
    /\ \A n \in Instances : is_logged_in(n) <=> (everAuth[n] /\ liveSid[n] /= None)
    /\ (/\ op = "logout" /\ pc = "done"
        /\ IsSuccessResponse(lastResp)
        /\ logout_session_id = entry_session_id) =>
          /\ ~is_logged_in(self)
          /\ get_session_info(self).session_id = None
          /\ get_session_info(self).session_type = "FileStation"

\* login returned S1 for DNSServer, then logout(S1) succeeded
C5_Witness ==
    /\ op = "logout" /\ pc = "done" /\ IsSuccessResponse(lastResp)
    /\ arg_session_id = "S1" /\ entry_session_id = "S1"
    /\ entry_session_type = "DNSServer"
    /\ everAuth[self] /\ ~is_logged_in(self)

\* C6: a login that succeeds on an instance holding a session replaces the
\* cached identifier and type by the new ones; a login call sends login
\* requests only, and an instance holds one identifier or none.
C6_ReloginOverwrites ==
    /\ op = "login" =>
          \A k \in 1..Len(requests) :
              requests[k].params.method = "login" /\ requests[k].url = "/webapi/auth.cgi"
    /\ (op = "login" /\ IsLoginSuccess(lastResp) /\ entry_session_id /= None) =>
          /\ current_session_id[self] = lastResp.body.sid
          /\ current_session_type[self] = session_type
    /\ \A n \in Instances : current_session_id[n] \in SIDs \cup {None}

\* a second login replacing both the identifier and the type
C6_Witness ==
    /\ op = "login" /\ pc = "done" /\ IsLoginSuccess(lastResp)
    /\ entry_session_id /= None /\ entry_session_id /= current_session_id[self]
    /\ entry_session_type /= current_session_type[self]

\* C7: a logout failure response with code 105 or 106 ends the call at the
\* version it arrives at, and is itself the result.
C7_TerminalLogoutFailure ==
    (/\ op = "logout"
     /\ IsFailureResponse(lastResp)
     /\ lastResp.body.code \in LogoutTerminalCodes) =>
        /\ pc = "done"
        /\ result = lastResp.body

\* code 106 at the second version
C7_Witness ==
    /\ op = "logout" /\ pc = "done" /\ Len(requests) = 2
    /\ IsFailureResponse(lastResp) /\ lastResp.body.code = "106"
    /\ result.code = "106"

\* the logout loop went through all four versions without a success or a
\* terminal failure
LogoutExhausted ==
    /\ op = "logout" /\ pc = "done" /\ Len(requests) = 4
    /\ ~IsSuccessResponse(lastResp)
    /\ ~(IsFailureResponse(lastResp) /\ lastResp.body.code \in LogoutTerminalCodes)

\* C8: an exhausted logout returns the error recorded at the last version
\* (the failure response, or a network_error / unknown_error result for an
\* exception), and all_versions_failed only if the loop recorded no error.
C8_ExhaustedLogoutReturnsLast ==
    LogoutExhausted =>
        /\ IsFailureResponse(lastResp) => result = lastResp.body
        /\ IsTransportException(lastResp) =>
              result.code \in {"network_error", "unknown_error"}
        /\ result.code = "all_versions_failed" => last_error = NoneDict

\* the iteration of a login or logout call is exhausted
IterationExhausted ==
    /\ op \in {"login", "logout"} /\ pc = "done" /\ Len(requests) = 4
    /\ ~IsSuccessResponse(lastResp)
    /\ ~(op = "login" /\ IsFailureResponse(lastResp)
                      /\ lastResp.body.code \in LoginTerminalCodes)
    /\ ~(op = "logout" /\ IsFailureResponse(lastResp)
                       /\ lastResp.body.code \in LogoutTerminalCodes)

\* a failure body of the shape the remote protocol fixes:
\* {success: false, error: {code: ...}}
IsContractFailure(d) == d.success = "false" /\ d.code /= Absent

\* C9: every login or logout that does not succeed returns a result with
\* success false and an error code (a failure response handed on as it came
\* has them when the remote system keeps to its response shape), and an
\* exhausted iteration returns the last error it observed: the last failure
\* response, or a result reporting the last transport exception.
C9_NoErrorDropped ==
    /\ (/\ op \in {"login", "logout"} /\ pc = "done" /\ result.success /= "true"
        /\ (result = lastResp.body => IsContractFailure(lastResp.body))) =>
          result.success = "false" /\ result.code /= Absent
    /\ IterationExhausted =>
          /\ IsFailureResponse(lastResp) => result = lastResp.body
          /\ IsTransportException(lastResp) =>
                result.code \in {"network_error", "unknown_error"}

\* an answer whose body parsed to an object that reports success
SaysSuccess(resp) ==
    resp.transport = "ok" /\ resp.parse = "dict" /\ resp.body.success = "true"

\* C10: a resource call whose response has a false or missing success field
\* returns nothing and raises the error with the remote code ('unknown' when
\* there is none) and the remote error mapping; data is returned only for a
\* response whose success is true, and is then the response's data.
C10_FailureNeverReturnsData ==
    (op = "dns" /\ pc = "done") =>
        /\ IsFailureResponse(lastResp) =>
              /\ dns_data = NoData
              /\ raised.type = "Exception"
              /\ raised.code = (IF lastResp.body.code = Absent THEN "unknown"
                                ELSE lastResp.body.code)
              /\ raised.info.code = lastResp.body.code
              /\ raised.info.message = lastResp.body.message
        /\ dns_data /= NoData => SaysSuccess(lastResp)
        /\ IsSuccessResponse(lastResp) =>
              /\ raised = NoException
              /\ dns_data = (IF lastResp.body.data = Absent THEN "{}"
                             ELSE lastResp.body.data)

\* a response without success field that carries data
C10_Witness ==
    /\ op = "dns" /\ pc = "done"
    /\ lastResp.body.success = Absent /\ lastResp.body.data = "D1"
    /\ lastResp.body.code = "119"
    /\ raised.type = "Exception" /\ raised.code = "119" /\ dns_data = NoData

\* ------------------------------------------------------- resource client
\* a resource call that is over
DnsCallOver == op = "dns" /\ pc = "done"

\* the public operations of the resource client
ReadOnlyOps ==
    {"list_zones", "get_zone", "export_zone", "list_records", "get_soa",
     "get_master_zone_conf", "get_forward_zone_conf", "get_server_status"}

MutatingOps ==
    {"create_master_zone", "create_forward_zone", "delete_zone", "enable_zone",
     "disable_zone", "import_zone", "create_record", "update_record",
     "delete_record", "update_soa"}

\* C11: a resource call that is over has issued exactly one request, with the
\* version its caller gave, whether the answer was a success, a success=false
\* body or a transport failure; every public operation gave version '1'.
C11_OneRequestCallerVersion ==
    DnsCallOver =>
        /\ Len(requests) = 1
        /\ requests[1].params.version = dns_call.version
        /\ dns_op.name \in ReadOnlyOps \cup MutatingOps => dns_call.version = "1"
        /\ dns_op.name \in ReadOnlyOps \cup MutatingOps \cup {"_make_request"}

\* a direct call with version '2' met an answer with success = false and
\* sent one request of version '2'
C11_Witness ==
    /\ DnsCallOver
    /\ dns_op.name = "_make_request" /\ dns_call.version = "2"
    /\ IsFailureResponse(lastResp)
    /\ Len(requests) = 1 /\ requests[1].params.version = "2"

C13_VerbFollowsUsePost ==
    DnsCallOver =>
        /\ ~dns_call.use_post =>
              requests[1].verb = "GET" /\ requests[1].carrier = "query"
        /\ dns_call.use_post =>
              requests[1].verb = "POST" /\ requests[1].carrier = "body"
        /\ dns_op.name \in ReadOnlyOps => requests[1].verb = "GET"
        /\ dns_op.name \in MutatingOps => requests[1].verb = "POST"

\* enable_zone was sent as a POST with its parameters in the body
C13_Witness ==
    /\ DnsCallOver
    /\ dns_op.name = "enable_zone"
    /\ requests[1].verb = "POST" /\ requests[1].carrier = "body"
    /\ requests[1].params.zone_enable = PyTrue

\* the owner name the specification prescribes for a short name in a zone
ExpectedOwner(name, zone) ==
    IF EndsWith(name, ".") THEN name
    ELSE IF name = At THEN zone \o <<".">>
    ELSE name \o <<".">> \o zone \o <<".">>

\* C14: create_record and update_record send as rr_owner the quoted owner
\* name: the name itself when it ends in '.', '<zone>.' for '@', and
\* '<name>.<zone>.' otherwise; both operations build it identically, and
\* ('@', example.com) gives example.com. and ('www', example.com) gives
\* www.example.com.
C14_OwnerName ==
    /\ (DnsCallOver /\ dns_op.name = "create_record") =>
          requests[1].params.rr_owner =
              Quoted(ExpectedOwner(dns_op.record_name, dns_op.zone_name))
    /\ (DnsCallOver /\ dns_op.name = "update_record"
                    /\ dns_op.record_name /= None) =>
          requests[1].params.rr_owner =
              Quoted(ExpectedOwner(dns_op.record_name, dns_op.zone_name))
    /\ \A name \in Names, zone \in Zones :
          create_rr_owner(name, zone) = update_rr_owner(name, zone)
    /\ create_rr_owner(At, ExampleCom) = Quoted(ExampleCom \o <<".">>)
    /\ create_rr_owner(Www, ExampleCom) =
          Quoted(<<"w", "w", "w", ".">> \o ExampleCom \o <<".">>)
    /\ create_rr_owner(WwwFqdn, ExampleCom) = Quoted(WwwFqdn)

\* update_record was given the name '@' and sent "example.com." in quotes
C14_Witness ==
    /\ DnsCallOver
    /\ dns_op.name = "update_record"
    /\ At = dns_op.record_name
    /\ requests[1].params.rr_owner =
          <<Quote, "e", "x", "a", "m", "p", "l", "e", ".", "c", "o", "m", ".", Quote>>

\* the record fields the specification names
RecordFields ==
    {"zone_name", "domain_name", "rr_owner", "rr_type", "rr_info", "rr_ttl",
     "record_key"}

ItemKeySet == {ItemKeys[i] : i \in 1..Len(ItemKeys)}

\* a text that begins and ends with a double-quote character
IsQuoted(s) == Len(s) >= 2 /\ s[1] = Quote /\ s[Len(s)] = Quote

\* the text of the value of member key in the JSON text of a one-item list:
\* from behind '"key": ' up to the separator before the next key, or up to
\* the closing '}]'
JsonMember(text, key) ==
    LET i     == CHOOSE i \in 1..Len(text) : text[i] = key
        later == {j \in (i + 1)..Len(text) : text[j] \in ItemKeySet}
        last  == IF later = {} THEN Len(text) - 2
                 ELSE (CHOOSE j \in later : \A j2 \in later : j <= j2) - 4
    IN  SubSeq(text, i + 4, last)

\* the texts sent for the named record fields: the parameters of create and
\* update, the members of the item in the JSON text of delete
SentFields ==
    IF dns_op.name = "delete_record"
    THEN [k \in RecordFields \cap ItemKeySet |->
             JsonMember(requests[1].params.items, k)]
    ELSE [k \in RecordFields \cap DOMAIN requests[1].params |->
             requests[1].params[k]]

RECURSIVE JsonUnescape(_)
JsonUnescape(s) ==
    IF Len(s) = 0 THEN <<>>
    ELSE IF Head(s) = Backslash /\ Len(s) >= 2
    THEN <<(IF s[2] = "t" THEN Tab ELSE s[2])>> \o JsonUnescape(SubSeq(s, 3, Len(s)))
    ELSE <<Head(s)>> \o JsonUnescape(Tail(s))

\* the str the member key of the JSON item denotes
JsonMemberValue(text, key) ==
    LET t == JsonMember(text, key) IN JsonUnescape(SubSeq(t, 2, Len(t) - 1))

\* the ttl the caller of delete_record gave, '86400' when they gave none
GivenTtl ==
    IF dns_op.rr_ttl = None THEN <<"8", "6", "4", "0", "0">> ELSE dns_op.rr_ttl

TransportFailures == {"ConnectionError", "HTTPError"}

\* the call ended with the failure of the transport: it is what was raised,
\* and nothing was returned
EndedInTransportFailure ==
    /\ raised /= NoException
    /\ raised.type \in TransportFailures
    /\ dns_data = NoData /\ op_return = NoData

\* C17 as stated: a resource call that met a transport exception or any
\* status outside 2xx ends with the failure of the transport, returns no
\* data, raises no remote-API error instead and does not read the body.
C17_NonSuccessStatusFails ==
    (DnsCallOver /\ (lastResp.transport = "conn_error"
                      \/ lastResp.status \notin 200..299)) =>
        EndedInTransportFailure

\* C17, amended: a resource call that met a transport exception or a 4xx/5xx
\* status ends with the failure of the transport (ConnectionError, HTTPError):
\* no data is returned, no remote-API error is raised instead, and the body is
\* not read, so a 5xx answer whose body says success = true fails too.
C17_ErrorStatusFails ==
    (DnsCallOver /\ (lastResp.transport = "conn_error"
                      \/ lastResp.status \in 400..599)) =>
        EndedInTransportFailure

\* a 500 answer whose body says success = true and carries data ended the
\* call with HTTPError and without data
C17_Witness ==
    /\ DnsCallOver
    /\ lastResp.status = 500
    /\ lastResp.body.success = "true" /\ lastResp.body.data = "D1"
    /\ raised.type = "HTTPError"
    /\ dns_data = NoData /\ op_return = NoData

\* ------------------------------------------------- exceptions, instances
\* a login or logout call, running or over
NegotiatorCall == op \in {"login", "logout"}

C19_InstancesIndependent ==
    [][\A n \in Instances :
          (\/ current_session_id'[n] /= current_session_id[n]
           \/ current_session_type'[n] /= current_session_type[n]) =>
              /\ NegotiatorCall /\ pc = "loop"
              /\ self = n /\ self' = n]_vars

\* instance n1 logged out, with success, the identifier instance n2 has
\* cached; n2 still has it cached, together with the type DNSServer
C19_Witness ==
    /\ op = "logout" /\ pc = "done" /\ self = "n1"
    /\ result.success = "true"
    /\ logout_session_id = "S1"
    /\ current_session_id["n1"] = None
    /\ entry_session_id = "S1"
    /\ current_session_id["n2"] = "S1"
    /\ current_session_type["n2"] = "DNSServer"


\* ---------------------------------------------------------------- C20
AllIdle == \A t \in Threads : t_pc[t] = "idle"

\* the cached identifier and purpose were last written by the same call, and
\* a cached identifier stands with the purpose its authenticate call was given
CachePairFromOneCall ==
    /\ id_from = type_from
    /\ current_session_id[Shared] /= None =>
          /\ id_from \in 1..calls
          /\ call_info[id_from].kind = "login"
          /\ current_session_type[Shared] = call_info[id_from].session_type

\* C20: when the calls on one negotiator are serialized, then between calls
\* the cached identifier and the cached purpose both come from the same
\* successful authenticate call (or both from the same terminate call, which
\* left no identifier); put the other way round, a cache whose two fields
\* come from different calls is seen only where the callers took no lock
C20_SerializedCallsConsistent == (AllIdle /\ ~CachePairFromOneCall) => ~exclusive

\* serialized calls have run and the second one, an authenticate, has stored
\* its identifier and its purpose
C20_SerializedWitness ==
    /\ exclusive /\ AllIdle
    /\ id_from = 2 /\ type_from = 2
    /\ call_info[2].kind = "login"
    /\ call_info[1].kind = "login"
    /\ call_info[1].session_type /= call_info[2].session_type
    /\ current_session_id[Shared] /= None
    /\ current_session_type[Shared] = call_info[2].session_type

\* C20 (second half): without mutual exclusion two authenticate calls with
\* different purposes have interleaved and returned, and the cached
\* identifier comes from one while the cached purpose comes from the other
C20_Witness ==
    /\ ~exclusive /\ AllIdle
    /\ id_from \in 1..calls /\ type_from \in 1..calls
    /\ id_from /= type_from
    /\ call_info[id_from].kind = "login"
    /\ call_info[type_from].kind = "login"
    /\ call_info[id_from].session_type /= call_info[type_from].session_type
    /\ current_session_id[Shared] /= None
    /\ current_session_type[Shared] = call_info[type_from].session_type

\* an authenticate and a terminate have interleaved without mutual exclusion:
\* the cached identifier is the one the authenticate stored, the cached
\* purpose the one the terminate reset
C20_MixedWithLogout ==
    /\ ~exclusive /\ AllIdle
    /\ id_from \in 1..calls /\ type_from \in 1..calls
    /\ call_info[id_from].kind = "login"
    /\ call_info[type_from].kind = "logout"
    /\ current_session_id[Shared] /= None
    /\ current_session_type[Shared] /= call_info[id_from].session_type


WithoutVersion(req) == [req EXCEPT !.params.version = "*"]

\* C22: login and logout send their requests for the candidates 7, 6, 3, 2
\* in that order, one request per candidate; a call has ended once it has
\* sent its fourth request, so it sends at most 4; and the requests of one
\* call are equal in everything but the version parameter.
C22_CandidatesInOrderOnce ==
    NegotiatorCall =>
        /\ Len(requests) <= 4
        /\ Len(requests) = idx
        /\ \A k \in 1..Len(requests) : requests[k].params.version = CandidateOrder[k]
        /\ \A j, k \in 1..Len(requests) :
              WithoutVersion(requests[j]) = WithoutVersion(requests[k])
        /\ Len(requests) = 4 => pc = "done"
        /\ pc = "loop" => Len(requests) < 4

\* a logout that went through all four candidates
C22_Witness ==
    /\ op = "logout" /\ pc = "done" /\ Len(requests) = 4
    /\ requests[1].params.version = "7" /\ requests[4].params.version = "2"
    /\ requests[1].params._sid = requests[4].params._sid
    /\ requests[1].params.session = "DNSServer"

\* a login that went through all four candidates
C22_LoginWitness ==
    /\ op = "login" /\ pc = "done" /\ Len(requests) = 4
    /\ requests[1].params.version = "7" /\ requests[4].params.version = "2"
    /\ requests[1].params.session = requests[4].params.session


\* ---------------------------------------------------------------- C23
\* the login call has returned a success result (one that carries a sid)
LoginReturnedSuccess ==
    op = "login" /\ pc = "done" /\ SuccessFlag(result) /\ result.sid /= Absent

\* C23: as long as a login call has not returned a success result, and after
\* it has returned a failure (terminal failure, exhaustion, attempts that
\* raised), the instance's cached identifier and session type are what they
\* were when the call began.
C23_FailedLoginKeepsCache ==
    (op = "login" /\ ~LoginReturnedSuccess) =>
        /\ current_session_id[self] = entry_session_id
        /\ current_session_type[self] = entry_session_type

\* a re-login for another session type is exhausted, its last answer being
\* a success body without sid; the session cached before is still there
C23_Witness ==
    /\ op = "login" /\ pc = "done" /\ ~LoginReturnedSuccess
    /\ result = AuthenticationFailed
    /\ SuccessFlag(lastResp.body) /\ lastResp.body.sid = Absent
    /\ entry_session_id \in SIDs
    /\ entry_session_type /= session_type
    /\ current_session_id[self] = entry_session_id
    /\ current_session_type[self] = entry_session_type

\* a re-login ends in a terminal failure; the session cached before is
\* still there
C23_TerminalWitness ==
    /\ op = "login" /\ pc = "done" /\ result.code = "400"
    /\ entry_session_id \in SIDs /\ is_logged_in(self)
    /\ entry_session_type /= session_type


\* ---------------------------------------------------------------- C24
\* the logout call has returned a success result
LogoutReturnedSuccess == op = "logout" /\ pc = "done" /\ SuccessFlag(result)

\* C24: as long as a logout call has not returned a success result, and
\* after it has returned a failure (no_session, terminal 105/106,
\* exhaustion), the instance's cached identifier and session type are what
\* they were when the call began; after the answer 105 or 106 to a logout of
\* the cached session, is_logged_in() is still true.
C24_FailedLogoutKeepsCache ==
    /\ (op = "logout" /\ ~LogoutReturnedSuccess) =>
          /\ current_session_id[self] = entry_session_id
          /\ current_session_type[self] = entry_session_type
    /\ (/\ op = "logout" /\ pc = "done"
        /\ IsFailureResponse(lastResp)
        /\ lastResp.body.code \in LogoutTerminalCodes
        /\ entry_session_id /= None
        /\ logout_session_id = entry_session_id) =>
          /\ is_logged_in(self)
          /\ get_session_info(self).session_id = entry_session_id

\* logout() of the cached DNSServer session is answered 105: the instance
\* still reports the session
C24_Witness ==
    /\ op = "logout" /\ pc = "done" /\ arg_session_id = None
    /\ result.code = "105" /\ result.success = "false"
    /\ entry_session_id \in SIDs /\ entry_session_type = "DNSServer"
    /\ logout_session_id = entry_session_id
    /\ is_logged_in(self)
    /\ get_session_info(self).session_type = "DNSServer"

\* logout() of the cached session is exhausted by four transport failures
C24_ExhaustionWitness ==
    /\ op = "logout" /\ pc = "done" /\ Len(requests) = 4
    /\ result = NetworkError
    /\ entry_session_id \in SIDs /\ is_logged_in(self)


\* ---------------------------------------------------------------- C25
\* C25: a logout that succeeds for an identifier other than the one the
\* instance had cached leaves the cached identifier and session type as they
\* were, and is_logged_in() with them; a successful logout has changed the
\* cache only if the identifier it logged out was the cached one, and then
\* the cache is the cleared one.
C25_ForeignLogoutKeepsCache ==
    /\ (LogoutReturnedSuccess /\ logout_session_id /= entry_session_id) =>
          /\ arg_session_id /= None
          /\ logout_session_id = arg_session_id
          /\ current_session_id[self] = entry_session_id
          /\ current_session_type[self] = entry_session_type
          /\ is_logged_in(self) <=> (entry_session_id /= None)
    /\ (/\ LogoutReturnedSuccess
        /\ \/ current_session_id[self] /= entry_session_id
           \/ current_session_type[self] /= entry_session_type) =>
          /\ logout_session_id = entry_session_id
          /\ current_session_id[self] = None
          /\ current_session_type[self] = DefaultSessionType

\* logout(S2) succeeds on an instance that caches S1 for DNSServer
C25_Witness ==
    /\ LogoutReturnedSuccess
    /\ arg_session_id = "S2" /\ entry_session_id = "S1"
    /\ entry_session_type = "DNSServer"
    /\ current_session_id[self] = "S1"
    /\ current_session_type[self] = "DNSServer"
    /\ is_logged_in(self)


\* ---------------------------------------------------------------- C26
\* the identifier and the session type every request of the logout call
\* carries
LogoutSends(sid, st) ==
    \A k \in 1..Len(requests) :
        /\ requests[k].params.method = "logout"
        /\ requests[k].params._sid = sid
        /\ requests[k].params.session = st

Given(a) == a /= None /\ a /= ""

C26_EmptyArgumentWitness ==
    /\ op = "logout" /\ Len(requests) >= 1
    /\ arg_session_id = "" /\ entry_session_id = "S1"
    /\ requests[1].params._sid = "S1"


\* ---------------------------------------------------------------- C27
\* a login has succeeded on instance n and the session of the latest such
\* login has since been logged out successfully
SessionTerminated(n) == everAuth[n] /\ liveSid[n] = None

\* C27: a logout() without an identifier that begins on an instance whose
\* session has been logged out successfully, with no successful login since,
\* is over at once with the no_session failure, sends no request and leaves
\* the instance as it was, so that the same holds for the next such call.
C27_LogoutIdempotent ==
    [][(/\ pc = "idle" /\ op' = "logout"
        /\ ~Given(arg_session_id')
        /\ SessionTerminated(self')) =>
          /\ pc' = "done"
          /\ result'.success = "false"
          /\ result'.code = "no_session"
          /\ requests' = <<>>
          /\ UNCHANGED <<authVars, histVars, session_id>>
          /\ current_session_id'[self'] = None]_vars

\* logout() on an instance whose DNSServer session was logged out before
C27_Witness ==
    /\ op = "logout" /\ pc = "done" /\ arg_session_id = None
    /\ SessionTerminated(self)
    /\ entry_session_id = None
    /\ result.code = "no_session"
    /\ requests = <<>>
    /\ ~is_logged_in(self)


\* ---------------------------------------------------------------- C28
\* C28: between and during the calls of one caller, on every instance: with
\* no identifier cached the cached session type is the default
\* 'FileStation'; with an identifier cached, it is the identifier the latest
\* successful login returned and the cached session type is the one that
\* login was called with.
C28_CacheConsistent ==
    \A n \in Instances :
        /\ current_session_id[n] = None =>
              current_session_type[n] = DefaultSessionType
        /\ current_session_id[n] /= None =>
              /\ everAuth[n]
              /\ current_session_id[n] = liveSid[n]
              /\ current_session_type[n] = liveType[n]

\* a DNSServer session cached, after a FileStation session was cached and
\* logged out on the same instance
C28_Witness ==
    /\ op = "login" /\ pc = "done" /\ session_type = "DNSServer"
    /\ current_session_id[self] = result.sid
    /\ current_session_type[self] = "DNSServer"
    /\ entry_session_id = None /\ entry_session_type = "FileStation"
    /\ \E n \in Instances : n /= self /\ current_session_id[n] = None /\ everAuth[n]


\* ---------------------------------------------------------------- C29
\* the latest login answer has a body that reports a terminal code
CarriesTerminalCode(resp) ==
    /\ resp.transport = "ok" /\ resp.parse = "dict"
    /\ resp.body.success = "false"
    /\ resp.body.code \in LoginTerminalCodes

\* the login call treated its latest answer as non-terminal: the loop goes
\* on, or has run out of candidates
TreatedAsNonTerminal ==
    IF Len(requests) < 4 THEN pc = "loop"
    ELSE pc = "done" /\ result = AuthenticationFailed

\* the login call has returned a failure body that carries a terminal code
ReturnedTerminalFailure ==
    /\ op = "login" /\ pc = "done"
    /\ result.success = "false" /\ result.code \in LoginTerminalCodes

\* C29 as stated: a login answer whose status is not 2xx is non-terminal
\* whatever code its body carries, and a terminal failure is returned for
\* 2xx answers only.
C29_Non2xxNeverTerminal ==
    /\ (/\ op = "login" /\ Len(requests) > 0
        /\ CarriesTerminalCode(lastResp)
        /\ lastResp.status \notin 200..299) => TreatedAsNonTerminal
    /\ ReturnedTerminalFailure => lastResp.status \in 200..299

\* C29, amended: a login answer whose status is 4xx or 5xx is non-terminal
\* whatever code its body carries, the status check coming before the look
\* at the body; a terminal failure is returned only for answers the status
\* check lets pass, which are those with a status outside 400..599.
C29_ErrorStatusNeverTerminal ==
    /\ (/\ op = "login" /\ Len(requests) > 0
        /\ CarriesTerminalCode(lastResp)
        /\ lastResp.status \in 400..599) => TreatedAsNonTerminal
    /\ ReturnedTerminalFailure =>
          /\ lastResp.status \notin 400..599
          /\ result = lastResp.body

\* the second candidate is answered with status 500 and a body carrying
\* code 400: the loop goes on
C29_Witness ==
    /\ op = "login" /\ pc = "loop" /\ Len(requests) = 2
    /\ lastResp.status = 500 /\ CarriesTerminalCode(lastResp)
    /\ lastResp.body.code = "400"

\* an answer with status 300 and a body carrying code 400 ends the call
C29_RedirectWitness ==
    /\ ReturnedTerminalFailure /\ Len(requests) = 1
    /\ lastResp.status = 300 /\ result.code = "400"


\* ---------------------------------------------------------------- C30
\* the parameters every request to the resource endpoint carries
CommonKeys == {"api", "version", "method", "_sid"}

\* the parameters update_record sends for the arguments of the call: the
\* three of the record's place, and one per optional argument that is not
\* None
UpdateKeys ==
    {"zone_name", "domain_name", "record_key"}
    \cup (IF dns_op.record_name = None THEN {} ELSE {"rr_owner"})
    \cup (IF dns_op.record_type = None THEN {} ELSE {"rr_type"})
    \cup (IF dns_op.rdata = None THEN {} ELSE {"rr_info"})
    \cup (IF dns_op.ttl = None THEN {} ELSE {"rr_ttl"})

\* C30: the request of update_record carries zone_name, domain_name and
\* record_key always, and rr_owner, rr_type, rr_info, rr_ttl each exactly
\* when name, record_type, rdata, ttl was passed (an empty name and a ttl of
\* 0 are passed values); a field whose argument was left out is not among
\* the parameters, and a field that is sent carries the value passed.
C30_UpdateSendsGivenFields ==
    (DnsCallOver /\ dns_op.name = "update_record") =>
        LET p == requests[1].params IN
        /\ DOMAIN p = CommonKeys \cup UpdateKeys
        /\ p.zone_name = Quoted(dns_op.zone_name)
        /\ p.domain_name = Quoted(dns_op.zone_name)
        /\ p.record_key = Quoted(dns_op.record_key)
        /\ "rr_owner" \in DOMAIN p =>
              p.rr_owner = Quoted(ExpectedOwner(dns_op.record_name, dns_op.zone_name))
        /\ "rr_type" \in DOMAIN p => p.rr_type = Quoted(dns_op.record_type)
        /\ "rr_info" \in DOMAIN p => p.rr_info = Quoted(dns_op.rdata)
        /\ "rr_ttl" \in DOMAIN p => p.rr_ttl = Quoted(Decimal(dns_op.ttl[1]))

\* update_record with a ttl of 0 and nothing else: rr_ttl is sent as "0",
\* rr_owner, rr_type and rr_info are not sent
C30_Witness ==
    /\ DnsCallOver /\ dns_op.name = "update_record"
    /\ dns_op.record_name = None /\ dns_op.record_type = None
    /\ dns_op.rdata = None
    /\ DOMAIN requests[1].params =
          CommonKeys \cup {"zone_name", "domain_name", "record_key", "rr_ttl"}
    /\ requests[1].params.rr_ttl = <<Quote, "0", Quote>>

\* update_record with an empty name and nothing else: rr_owner is sent
C30_EmptyNameWitness ==
    /\ DnsCallOver /\ dns_op.name = "update_record"
    /\ EmptyStr = dns_op.record_name
    /\ DOMAIN requests[1].params =
          CommonKeys \cup {"zone_name", "domain_name", "record_key", "rr_owner"}


\* ---------------------------------------------------------------- C31
\* disable_params and enable_params of test_zone_enable_disable, posted to
\* /webapi/entry.cgi with requests.post(api_url, data=...)
TestDisableParams(test_zone, dns_session) ==
    [api |-> "SYNO.DNSServer.Zone", version |-> "1", method |-> "set",
     zone_name |-> test_zone, domain_name |-> test_zone,
     zone_enable |-> <<"f", "a", "l", "s", "e">>, _sid |-> dns_session]

TestEnableParams(test_zone, dns_session) ==
    [api |-> "SYNO.DNSServer.Zone", version |-> "1", method |-> "set",
     zone_name |-> test_zone, domain_name |-> test_zone,
     zone_enable |-> <<"t", "r", "u", "e">>, _sid |-> dns_session]

ZoneSwitchOver == DnsCallOver /\ dns_op.name \in {"enable_zone", "disable_zone"}

\* C31: the request of enable_zone and of disable_zone is the one the test
\* posts: a POST to the resource endpoint whose form fields are api
\* SYNO.DNSServer.Zone, version '1', method 'set', zone_name and domain_name
\* the zone, the session identifier, and zone_enable 'true' for enable_zone,
\* 'false' for disable_zone.
C31_EnableDisableAsTest ==
    ZoneSwitchOver =>
        /\ requests[1].verb = "POST" /\ requests[1].carrier = "body"
        /\ requests[1].url = ApiUrl
        /\ FormFields(requests[1].params) =
              IF dns_op.name = "enable_zone"
              THEN TestEnableParams(dns_op.zone_name, session_id)
              ELSE TestDisableParams(dns_op.zone_name, session_id)

\* what does hold: the request is the test's in everything but the value of
\* zone_enable, which goes out as 'True' for enable_zone and as 'False' for
\* disable_zone
C31_EnableDisableButForValue ==
    ZoneSwitchOver =>
        /\ requests[1].verb = "POST" /\ requests[1].carrier = "body"
        /\ requests[1].url = ApiUrl
        /\ FormFields(requests[1].params) =
              IF dns_op.name = "enable_zone"
              THEN [TestEnableParams(dns_op.zone_name, session_id)
                        EXCEPT !.zone_enable = <<"T", "r", "u", "e">>]
              ELSE [TestDisableParams(dns_op.zone_name, session_id)
                        EXCEPT !.zone_enable = <<"F", "a", "l", "s", "e">>]

\* enable_zone('example.com') has posted zone_enable=True
C31_EnableSendsCapitalTrue ==
    /\ ZoneSwitchOver /\ dns_op.name = "enable_zone"
    /\ dns_op.zone_name = ExampleCom
    /\ FormFields(requests[1].params).zone_enable = <<"T", "r", "u", "e">>

=========================================================================
